---- MODULE Spec2Model ----
(***************************************************************************)
(* A model of the Slurm client of scripts/slurm/SLURM_Get_Results.py: the  *)
(* job submission (run_workflow, extract_job_id) and the status polling    *)
(* with its bounded retry (check_job_status).                              *)
(*                                                                         *)
(* A Python str is a sequence of symbols.  A symbol is one character, or   *)
(* a fixed piece of text of the program that no other text here overlaps   *)
(* (the marker "Submitted batch job", the literal parts of a command).     *)
(***************************************************************************)
EXTENDS Integers, Sequences, FiniteSets, TLC

VARIABLES
    client,        \* the fields of the SlurmClient object
    pc,            \* where the running call of the client is
    slurm_job_ids, \* check_job_status: the argument
    cmd,           \* check_job_status: the local cmd
    retry_status,  \* check_job_status: the local retry_status
    result,        \* the Result of the last remote command
    trace,         \* what the running (or last) call did on the session
    ret,           \* how the last call ended
    job_status_dict, \* check_job_status: the returned mapping
    slurm_job_id,  \* run_workflow: the returned job id
    args,          \* the arguments of the running (or last) call of a builder
    retval         \* what that call returned

vars == <<client, pc, slurm_job_ids, cmd, retry_status, result, trace, ret,
          job_status_dict, slurm_job_id, args, retval>>

---------------------------------------------------------------------------
(* Bounds of the model *)

\* longest stdout of the submission command, in symbols
MaxOut == 4
\* most lines of one accounting answer
MaxRows == 2
\* most job ids of one status request
MaxIds == 2

---------------------------------------------------------------------------
(* Python's str operations *)

NL == "\n"
SP == " "
Whitespace == {SP, NL}
Digits == {"0", "1", "2", "3", "4", "5", "6", "7", "8", "9"}

DigitVal(c) ==
    CASE c = "0" -> 0 [] c = "1" -> 1 [] c = "2" -> 2 [] c = "3" -> 3
      [] c = "4" -> 4 [] c = "5" -> 5 [] c = "6" -> 6 [] c = "7" -> 7
      [] c = "8" -> 8 [] c = "9" -> 9

DigitChr(n) ==
    CASE n = 0 -> "0" [] n = 1 -> "1" [] n = 2 -> "2" [] n = 3 -> "3"
      [] n = 4 -> "4" [] n = 5 -> "5" [] n = 6 -> "6" [] n = 7 -> "7"
      [] n = 8 -> "8" [] n = 9 -> "9"

\* s.split(sep), sep one symbol
RECURSIVE py_split(_, _)
py_split(s, sep) ==
    IF \A i \in 1..Len(s) : s[i] # sep
    THEN <<s>>
    ELSE LET i == CHOOSE k \in 1..Len(s) :
                      s[k] = sep /\ \A j \in 1..(k - 1) : s[j] # sep
         IN  <<SubSeq(s, 1, i - 1)>> \o py_split(SubSeq(s, i + 1, Len(s)), sep)

RECURSIVE py_lstrip(_)
py_lstrip(s) ==
    IF s # <<>> /\ Head(s) \in Whitespace THEN py_lstrip(Tail(s)) ELSE s

RECURSIVE py_rstrip(_)
py_rstrip(s) ==
    IF s # <<>> /\ s[Len(s)] \in Whitespace
    THEN py_rstrip(SubSeq(s, 1, Len(s) - 1))
    ELSE s

\* s.strip()
py_strip(s) == py_rstrip(py_lstrip(s))

\* s.isdigit()
py_isdigit(s) == s # <<>> /\ \A i \in 1..Len(s) : s[i] \in Digits

\* int(s), s a string of digits
RECURSIVE py_int(_)
py_int(s) ==
    IF s = <<>> THEN 0
    ELSE 10 * py_int(SubSeq(s, 1, Len(s) - 1)) + DigitVal(s[Len(s)])

\* str(n), n >= 0
RECURSIVE py_str(_)
py_str(n) ==
    IF n < 10 THEN <<DigitChr(n)>>
    ELSE py_str(n \div 10) \o <<DigitChr(n % 10)>>

\* s.split(): the maximal runs of non-whitespace symbols
RECURSIVE py_split_ws(_)
py_split_ws(s) ==
    LET t == py_lstrip(s)
    IN  IF t = <<>> THEN <<>>
        ELSE LET ends == {k \in 1..Len(t) : t[k] \in Whitespace}
                 n == IF ends = {} THEN Len(t)
                      ELSE (CHOOSE k \in ends : \A j \in ends : k <= j) - 1
             IN  <<SubSeq(t, 1, n)>> \o py_split_ws(SubSeq(t, n + 1, Len(t)))

\* sep.join(parts)
RECURSIVE py_join(_, _)
py_join(sep, parts) ==
    IF parts = <<>> THEN <<>>
    ELSE IF Len(parts) = 1 THEN parts[1]
    ELSE parts[1] \o sep \o py_join(sep, Tail(parts))

\* all sequences over S of length at most n
SeqsUpTo(S, n) == UNION {[1..k -> S] : k \in 0..n}

---------------------------------------------------------------------------
(* Values of the model *)

\* Optional[str]: None, or a string
None == [some |-> FALSE, v |-> <<>>]
Some(s) == [some |-> TRUE, v |-> s]

\* a dict with no key
EmptyDict == [k \in {} |-> <<>>]

\* no builder has been called
NoArgs == [op |-> ""]
NoValue == <<>>

\* how a call ended
NoReturn == [op |-> "", kind |-> "none", exc |-> "", msg |-> ""]
Returned(op) == [op |-> op, kind |-> "return", exc |-> "", msg |-> ""]
Raised(op, exc, msg) == [op |-> op, kind |-> "raise", exc |-> exc, msg |-> msg]

\* one remote command run on the session, and what came back
RunEvent(c, env, r) ==
    [kind |-> "run", cmd |-> c, env |-> env, secs |-> 0,
     resp |-> IF ~r.ok THEN "not_ok"
              ELSE IF r.stdout = <<>> THEN "ok_empty" ELSE "ok_output"]
\* one blocking pause
SleepEvent(n) ==
    [kind |-> "sleep", cmd |-> <<>>, env |-> EmptyDict, secs |-> n, resp |-> ""]

Runs(t) == SelectSeq(t, LAMBDA e : e.kind = "run")
Sleeps(t) == SelectSeq(t, LAMBDA e : e.kind = "sleep")

---------------------------------------------------------------------------
(* The client object *)

\* the phrase sbatch prints, one symbol
marker == "Submitted batch job"

\* _JOB_STATUS_CMD, the text before {slurm_job_id}
JOB_STATUS_CMD == "sacct -n -o JobId,State,End -X -j "

LowerChr(c) == CASE c = "C" -> "c" [] c = "P" -> "p" [] OTHER -> c
UpperChr(c) == CASE c = "a" -> "A" [] c = "b" -> "B" [] c = "c" -> "C"
                 [] c = "p" -> "P" [] c = "data_path" -> "DATA_PATH"
                 [] OTHER -> c
py_lower(s) == [i \in 1..Len(s) |-> LowerChr(s[i])]
py_upper(s) == [i \in 1..Len(s) |-> UpperChr(s[i])]

\* f"{value}"
py_format(value) ==
    CASE value.t = "int" -> py_str(value.v)
      [] value.t = "float" -> py_str(value.v) \o <<".">> \o py_str(value.frac)
      [] value.t = "bool" -> IF value.v = 1 THEN <<"True">> ELSE <<"False">>
      [] OTHER -> value.s

IntVal(n) == [t |-> "int", v |-> n, frac |-> 0, s |-> <<>>]
FloatVal(n, f) == [t |-> "float", v |-> n, frac |-> f, s |-> <<>>]

\* the fields __init__ sets; the configured workflow is "cp"
InitClient ==
    [slurm_data_path |-> <<"my-scratch/data">>,
     slurm_images_path |-> <<"my-scratch/singularity_images/workflows">>,
     slurm_script_path |-> <<"slurm-scripts">>,
     slurm_model_paths |-> (<<"c", "p">> :> <<"cellpose">>),
     slurm_model_repos |-> (<<"c", "p">> :> <<"https://github.com/org/repo">>),
     slurm_model_images |-> (<<"c", "p">> :> <<"org", "/", "w_cellpose">>),
     slurm_model_jobs |-> (<<"c", "p">> :> <<"jobs/cellpose.sh">>)]

\* the keys as they are given, in no upper case
workflow_params_to_envvars_as_given(kwargs) ==
    [k \in DOMAIN kwargs |-> py_format(kwargs[k].value)]

workflow_params_to_envvars(kwargs) ==
    LET keys == {py_upper(k) : k \in DOMAIN kwargs}
    IN  [K \in keys |->
            \* a dict comprehension: of the keys with one upper case, the
            \* last in the order of kwargs wins; the order is that of Len
            LET same == {k \in DOMAIN kwargs : py_upper(k) = K}
                last == CHOOSE k \in same :
                            \A j \in same : kwargs[j].pos <= kwargs[k].pos
            IN  py_format(kwargs[last].value)]

\* a merge in which the fixed keys win
merge_env_fixed_wins(sbatch_env, workflow_env) == sbatch_env @@ workflow_env

\* {**sbatch_env, **workflow_env}: a key of both has the value of the second
merge_env(sbatch_env, workflow_env) == workflow_env @@ sbatch_env

\* a time option that is there whether a time was given or not
sbatch_job_param_time_always(email, time) ==
    LET email_param == IF ~email.some THEN <<>>
                       ELSE <<" --mail-user=">> \o email.v
        time_param == <<" --time=">> \o time.v
    IN  time_param \o email_param

\* "".join([time_param, email_param])
sbatch_job_param(email, time) ==
    LET email_param == IF ~email.some THEN <<>>
                       ELSE <<" --mail-user=">> \o email.v
        time_param == IF ~time.some THEN <<>> ELSE <<" --time=">> \o time.v
    IN  time_param \o email_param

get_workflow_command(c, workflow, workflow_version, input_data, email, time, kwargs) ==
    LET model_path == c.slurm_model_paths[py_lower(workflow)]
        job_script == c.slurm_model_jobs[py_lower(workflow)]
        image == py_split(c.slurm_model_images[py_lower(workflow)], "/")[2]
        sbatch_env ==
            (<<"DATA_PATH">> :> (c.slurm_data_path \o <<"/">> \o input_data))
            @@ (<<"IMAGE_PATH">> :> (c.slurm_images_path \o <<"/">> \o model_path))
            @@ (<<"IMAGE_VERSION">> :> workflow_version)
            @@ (<<"SINGULARITY_IMAGE">> :>
                    (image \o <<"_">> \o workflow_version \o <<".sif">>))
        workflow_env == workflow_params_to_envvars(kwargs)
        env == merge_env(sbatch_env, workflow_env)
        job_param == sbatch_job_param(email, time)
    IN  [cmd |-> <<"sbatch">> \o job_param
                 \o <<" --output=omero-%4j.log ", "            ">>
                 \o c.slurm_script_path \o <<"/">> \o job_script,
         env |-> env]

\* the filter is put in the command as Python prints it
unzip_filter_none_printed(filter_filetypes) ==
    IF ~filter_filetypes.some THEN <<"None">> ELSE filter_filetypes.v

\* if filter_filetypes is None: filter_filetypes = '*'
unzip_filter(filter_filetypes) ==
    IF ~filter_filetypes.some THEN <<"*">> ELSE filter_filetypes.v

\* the default of the parameter filter_filetypes
DefaultFilter == Some(<<"*.tiff", SP, "*.tif">>)

\* lines 1227-1237; the continuation of the source line leaves its blanks
\* in the command
get_unzip_command(c, zipfile, filter_filetypes) ==
    LET dir == c.slurm_data_path \o <<"/">> \o zipfile
    IN  <<"mkdir ">> \o dir \o <<" ", "                    ">>
        \o dir \o <<"/data", " ", "                    ">>
        \o dir \o <<"/data/in", " ", "                    ">>
        \o dir \o <<"/data/out", " ", "                    ">>
        \o dir \o <<"/data/gt", "; ", "                    ">>
        \o <<"7z e -y -o">> \o dir \o <<"/data/in", " ", "                    ">>
        \o dir \o <<".zip", " ">> \o unzip_filter(filter_filetypes)

\* next((int(s.strip()) for s in stdout.split(marker)
\*       if s.strip().isdigit()), -1)
extract_job_id(res) ==
    LET pieces == py_split(res.stdout, marker)
        digit == {i \in 1..Len(pieces) : py_isdigit(py_strip(pieces[i]))}
    IN  IF digit = {} THEN -1
        ELSE py_int(py_strip(pieces[CHOOSE i \in digit :
                                        \A j \in digit : i <= j]))

\* " -j ".join([str(id) for id in slurm_job_ids]) in _JOB_STATUS_CMD
get_job_status_command(ids) ==
    <<JOB_STATUS_CMD>>
    \o py_join(<<" -j ">>, [i \in 1..Len(ids) |-> py_str(ids[i])])

---------------------------------------------------------------------------
(* The remote session: what a command can answer *)

\* a fabric Result: the success flag and the captured stdout
Result(ok, stdout) == [ok |-> ok, stdout |-> stdout]
NoResult == Result(TRUE, <<>>)

\* the symbols of a submission's stdout
SbatchSymbols == {marker, SP, NL, "1", "2", "x"}
SbatchResults ==
    {Result(ok, out) : ok \in BOOLEAN, out \in SeqsUpTo(SbatchSymbols, MaxOut)}

\* the lines of an accounting answer: the empty line, a blank line, rows of
\* JobId State [End], a row with no state, a row whose first field is no number
SacctLines ==
    {<<>>, <<SP>>,
     <<"1", SP, "RUNNING">>,
     <<"2", SP, "COMPLETED", SP, "2023-01-01T00:00:00">>,
     <<"1", "2", SP, "FAILED", SP>>,
     <<"1">>,
     <<"x", SP, "RUNNING">>}
SacctResults ==
    {Result(ok, py_join(<<NL>>, ls)) :
        ok \in BOOLEAN, ls \in SeqsUpTo(SacctLines, MaxRows)}

\* the arguments of the calls
JobIds == {1, 12}
JobIdLists == UNION {[1..k -> JobIds] : k \in 1..MaxIds}
Workflows == {<<"c", "p">>, <<"C", "P">>}
Versions == {<<"v1.2">>}
Inputs == {<<"exp001">>}
Emails == {None, Some(<<"a@b.nl">>)}
Times == {None, Some(<<"00:10:00">>)}
KwargsSet ==
    {EmptyDict,
     (<<"a">> :> [pos |-> 1, value |-> FloatVal(0, 5)])
       @@ (<<"b">> :> [pos |-> 2, value |-> IntVal(0)])}

---------------------------------------------------------------------------
(* check_job_status *)

\* the retries of the while loop
max_retries == 3
\* the seconds of one pause
sleep_seconds == 3

\* the loop test with one pass too many
cjs_loop_test_one_more(retry) == retry <= max_retries
\* the loop test with one pass too few
cjs_loop_test_one_less(retry) == retry < max_retries - 1

\* while retry_status < 3
cjs_loop_test(retry) == retry < max_retries

\* a failed command taken for a successful one
cjs_result_ok_ignored(r) == TRUE

\* if result.ok
cjs_result_ok(r) == r.ok

\* a kind of its own for the loop that ran out
exc_no_response_own_kind == "TimeoutError"

\* raise SSHException(error), lines 809 and 814
exc_not_ok == "SSHException"
exc_no_response == "SSHException"

\* {int(line.split()[0]): line.split()[1]
\*  for line in result.stdout.split("\n") if line}
StatusLines(stdout) == SelectSeq(py_split(stdout, NL), LAMBDA l : l # <<>>)

\* the exception the comprehension raises on one line, "" when none
LineError(line) ==
    LET f == py_split_ws(line)
    IN  IF Len(f) = 0 THEN "IndexError"
        ELSE IF ~py_isdigit(f[1]) THEN "ValueError"
        ELSE IF Len(f) < 2 THEN "IndexError"
        ELSE ""

RECURSIVE StatusDict(_)
StatusDict(lines) ==
    IF lines = <<>> THEN EmptyDict
    ELSE LET l == py_split_ws(lines[Len(lines)])
         IN  (py_int(l[1]) :> l[2])
             @@ StatusDict(SubSeq(lines, 1, Len(lines) - 1))

parse_job_status(stdout) ==
    LET lines == StatusLines(stdout)
        bad == {i \in 1..Len(lines) : LineError(lines[i]) # ""}
    IN  IF bad # {}
        THEN [exc |-> LineError(lines[CHOOSE i \in bad : \A j \in bad : i <= j]),
              dict |-> EmptyDict]
        ELSE [exc |-> "", dict |-> StatusDict(lines)]

\* lines 786-788: the command is built once, retry_status = 0
check_job_status_call ==
    /\ pc = "idle"
    /\ \E ids \in JobIdLists :
          /\ slurm_job_ids' = ids
          /\ cmd' = get_job_status_command(ids)
    /\ retry_status' = 0
    /\ pc' = "cjs_while"
    /\ trace' = <<>>
    /\ ret' = NoReturn
    /\ result' = NoResult
    /\ job_status_dict' = EmptyDict
    /\ slurm_job_id' = -1
    /\ UNCHANGED <<client, args, retval>>

\* lines 789-793 and 801-809: one pass of the loop up to the pause
check_job_status_attempt ==
    /\ pc = "cjs_while"
    /\ cjs_loop_test(retry_status)
    /\ \E r \in SacctResults :
          /\ result' = r
          /\ trace' = Append(trace, RunEvent(cmd, EmptyDict, r))
          /\ IF cjs_result_ok(r)
             THEN IF r.stdout = <<>>
                  THEN /\ pc' = "cjs_sleep"
                       /\ UNCHANGED <<ret, job_status_dict>>
                  ELSE LET p == parse_job_status(r.stdout)
                       IN  /\ pc' = "done"
                           /\ job_status_dict' = p.dict
                           /\ ret' = IF p.exc = ""
                                     THEN Returned("check_job_status")
                                     ELSE Raised("check_job_status", p.exc,
                                                 "")
             ELSE /\ pc' = "done"
                  /\ ret' = Raised("check_job_status", exc_not_ok,
                                   "Result is not ok")
                  /\ UNCHANGED job_status_dict
    /\ UNCHANGED <<args, retval, client, slurm_job_ids, cmd, retry_status, slurm_job_id>>

\* lines 794-800: the pause and the count of the retry
check_job_status_sleep ==
    /\ pc = "cjs_sleep"
    /\ trace' = Append(trace, SleepEvent(sleep_seconds))
    /\ retry_status' = retry_status + 1
    /\ pc' = "cjs_while"
    /\ UNCHANGED <<args, retval, client, slurm_job_ids, cmd, result, ret, job_status_dict,
                   slurm_job_id>>

\* lines 810-814: the else of the while, the loop ran out
check_job_status_exhausted ==
    /\ pc = "cjs_while"
    /\ ~cjs_loop_test(retry_status)
    /\ pc' = "done"
    /\ ret' = Raised("check_job_status", exc_no_response,
                     "Retried, but no response")
    /\ UNCHANGED <<args, retval, client, slurm_job_ids, cmd, retry_status, result, trace,
                   job_status_dict, slurm_job_id>>

---------------------------------------------------------------------------
(* run_workflow *)

\* a run_workflow that submits again when the submission failed
run_workflow_resubmits ==
    /\ pc = "idle"
    /\ \E workflow \in Workflows, version \in Versions, input \in Inputs,
          email \in Emails, time \in Times, kwargs \in KwargsSet,
          res \in SbatchResults, again \in SbatchResults :
          LET sb == get_workflow_command(client, workflow, version, input,
                                         email, time, kwargs)
          IN  IF res.ok
              THEN /\ again = res
                   /\ trace' = <<RunEvent(sb.cmd, sb.env, res)>>
                   /\ result' = res
                   /\ slurm_job_id' = extract_job_id(res)
              ELSE /\ again.stdout = res.stdout
                   /\ trace' = <<RunEvent(sb.cmd, sb.env, res),
                                 RunEvent(sb.cmd, sb.env, again)>>
                   /\ result' = again
                   /\ slurm_job_id' = extract_job_id(again)
    /\ ret' = Returned("run_workflow")
    /\ pc' = "done"
    /\ slurm_job_ids' = <<>>
    /\ cmd' = <<>>
    /\ retry_status' = 0
    /\ job_status_dict' = EmptyDict
    /\ UNCHANGED <<client, args, retval>>

\* lines 730-734: get_workflow_command, then run_commands([sbatch_cmd],
\* sbatch_env), one self.run of the joined list, then extract_job_id
run_workflow ==
    /\ pc = "idle"
    /\ \E workflow \in Workflows, version \in Versions, input \in Inputs,
          email \in Emails, time \in Times, kwargs \in KwargsSet,
          res \in SbatchResults :
          LET sb == get_workflow_command(client, workflow, version, input,
                                         email, time, kwargs)
          IN  /\ trace' = <<RunEvent(sb.cmd, sb.env, res)>>
              /\ result' = res
              /\ slurm_job_id' = extract_job_id(res)
    /\ ret' = Returned("run_workflow")
    /\ pc' = "done"
    /\ slurm_job_ids' = <<>>
    /\ cmd' = <<>>
    /\ retry_status' = 0
    /\ job_status_dict' = EmptyDict
    /\ UNCHANGED <<client, args, retval>>

---------------------------------------------------------------------------
(* The caller *)

\* the caller has the outcome of a call and goes on to its next call: the
\* locals of the finished call are gone, the client object stays
caller_continues ==
    /\ pc = "done"
    /\ pc' = "idle"
    /\ slurm_job_ids' = <<>>
    /\ cmd' = <<>>
    /\ retry_status' = 0
    /\ result' = NoResult
    /\ trace' = <<>>
    /\ ret' = NoReturn
    /\ job_status_dict' = EmptyDict
    /\ slurm_job_id' = -1
    /\ args' = NoArgs
    /\ retval' = NoValue
    /\ UNCHANGED client

---------------------------------------------------------------------------
(* The specification *)

Init ==
    /\ client = InitClient
    /\ pc = "idle"
    /\ slurm_job_ids = <<>>
    /\ cmd = <<>>
    /\ retry_status = 0
    /\ result = NoResult
    /\ trace = <<>>
    /\ ret = NoReturn
    /\ job_status_dict = EmptyDict
    /\ slurm_job_id = -1
    /\ args = NoArgs
    /\ retval = NoValue

Next ==
    \/ check_job_status_call
    \/ check_job_status_attempt
    \/ check_job_status_sleep
    \/ check_job_status_exhausted
    \/ run_workflow
    \/ caller_continues

Spec == Init /\ [][Next]_vars

---------------------------------------------------------------------------
(* list_active_jobs, list_completed_jobs, list_all_jobs *)

\* list.reverse()
py_reverse(l) == [i \in 1..Len(l) |-> l[Len(l) + 1 - i]]

\* _ALL_JOBS_CMD.format(...)
get_jobs_info_command(start_time, end_time, columns, states) ==
    <<"sacct --starttime ">> \o start_time \o <<" --endtime ">> \o end_time
    \o <<" --state ">> \o states \o <<" -o ">> \o columns \o <<" -n -X ">>

\* the defaults of get_jobs_info_command
DefaultStartTime == <<"2023-01-01">>
DefaultEndTime == <<"now">>
DefaultColumns == <<"JobId">>
DefaultStates == <<"r,cd,f,to,rs,dl,nf">>

\* what sacct -o JobId -n -X prints: a line for each job, the id maybe padded
\* with spaces, each line ended by a newline
JobLines == {<<"1">>, <<"1", "2">>, <<"2", SP, SP>>}
RECURSIVE Unlines(_)
Unlines(ls) ==
    IF ls = <<>> THEN <<>> ELSE ls[1] \o <<NL>> \o Unlines(Tail(ls))
JobListResults ==
    {Result(ok, Unlines(ls)) : ok \in BOOLEAN, ls \in SeqsUpTo(JobLines, MaxRows)}

\* job_list = result.stdout.strip().split('\n'); job_list.reverse()
job_list_of(res) == py_reverse(py_split(py_strip(res.stdout), NL))

\* the body the three list methods share: one command, the reversed lines
list_jobs(op, c) ==
    /\ \E res \in JobListResults :
          /\ result' = res
          /\ trace' = <<RunEvent(c, EmptyDict, res)>>
          /\ retval' = job_list_of(res)
    /\ args' = [op |-> op]
    /\ ret' = Returned(op)
    /\ pc' = "done"
    /\ UNCHANGED <<client, slurm_job_ids, cmd, retry_status, job_status_dict,
                   slurm_job_id>>

\* lines 509-527
list_active_jobs ==
    /\ pc = "idle"
    /\ list_jobs("list_active_jobs",
                 get_jobs_info_command(<<"now">>, DefaultEndTime,
                                       DefaultColumns, <<"r">>))

\* lines 529-547
list_completed_jobs ==
    /\ pc = "idle"
    /\ list_jobs("list_completed_jobs",
                 get_jobs_info_command(DefaultStartTime, DefaultEndTime,
                                       DefaultColumns, <<"cd">>))

\* lines 549-566
list_all_jobs ==
    /\ pc = "idle"
    /\ list_jobs("list_all_jobs",
                 get_jobs_info_command(DefaultStartTime, DefaultEndTime,
                                       DefaultColumns, DefaultStates))

---------------------------------------------------------------------------
(* The workflow descriptors: the URL, the fetch, init_workflows *)

\* most path segments of a repository URL after the host
MaxPath == 4
\* most inputs of a descriptor
MaxInputs == 2

\* the first place of x in l: l.index(x) + 1
py_index(l, x) ==
    CHOOSE i \in 1..Len(l) : l[i] = x /\ \A j \in 1..(i - 1) : l[j] # x

\* lines 937-949; url_parts[2] is the third part
extract_parts_from_url(input_url) ==
    LET url_parts == py_split(input_url, "/")
    IN  IF Len(url_parts) < 5 \/ url_parts[3] # <<"github.com">>
        THEN [exc |-> "ValueError", url_parts |-> url_parts, branch |-> <<>>]
        ELSE IF \E i \in 1..Len(url_parts) : url_parts[i] = <<"tree">>
        THEN LET branch_index == py_index(url_parts, <<"tree">>) + 1
             IN  IF branch_index > Len(url_parts)
                 THEN [exc |-> "IndexError", url_parts |-> url_parts,
                       branch |-> <<>>]
                 ELSE [exc |-> "", url_parts |-> url_parts,
                       branch |-> url_parts[branch_index]]
        ELSE [exc |-> "", url_parts |-> url_parts, branch |-> <<"master">>]

\* f"https://github.com/{url_parts[3]}/{url_parts[4]}/raw/{branch}/descriptor.json"
RawUrl(org, repo, branch) ==
    <<"https:", "/", "/", "github.com", "/">> \o org \o <<"/">> \o repo
    \o <<"/", "raw", "/">> \o branch \o <<"/", "descriptor.json">>

\* lines 965-971
convert_url(input_url) ==
    LET e == extract_parts_from_url(input_url)
    IN  IF e.exc # "" THEN [exc |-> e.exc, url |-> <<>>]
        ELSE [exc |-> "", url |-> RawUrl(e.url_parts[4], e.url_parts[5],
                                         e.branch)]

\* the URLs given: a scheme, a host, some path segments
Segments == {<<"org">>, <<"repo">>, <<"tree">>, <<"v2">>}
Hosts == {<<"github.com">>, <<"gitlab.com">>}
Url(host, path) == py_join(<<"/">>, <<<<"https:">>, <<>>, host>> \o path)
Urls == {Url(h, path) : h \in Hosts, path \in SeqsUpTo(Segments, MaxPath)}

\* the parameter prefix that is filtered out
Cytomine == <<"c", "y", "t", "o", "m", "i", "n", "e">>

\* s.startswith(p)
py_startswith(s, p) == Len(s) >= Len(p) /\ SubSeq(s, 1, Len(p)) = p

BoolVal(b) == [t |-> "bool", v |-> IF b THEN 1 ELSE 0, frac |-> 0, s |-> <<>>]
StrVal(x) == [t |-> "str", v |-> 0, frac |-> 0, s |-> x]
NoneVal == [t |-> "none", v |-> 0, frac |-> 0, s |-> <<"None">>]

\* an entry of the "inputs" of a descriptor
Input(id, default, type) ==
    [id |-> id, default_value |-> default, type |-> type, optional |-> FALSE,
     description |-> <<"about ">> \o id]

\* the inputs descriptors declare: with the prefix, the prefix alone, near
\* misses of the prefix, and one id declared twice
DescriptorInputs ==
    {Input(Cytomine \o <<"_", "h">>, StrVal(<<"host">>), "String"),
     Input(Cytomine, StrVal(<<>>), "String"),
     Input(SubSeq(Cytomine, 1, 7), IntVal(1), "Number"),
     Input(<<"m", "_">> \o Cytomine, BoolVal(TRUE), "Boolean"),
     Input(<<"C">> \o Tail(Cytomine), FloatVal(0, 5), "Number"),
     Input(<<"d">>, IntVal(0), "Number"),
     Input(<<"d">>, FloatVal(0, 0), "Number")}

\* the images descriptors declare
ImageA == <<"org", "/", "w_cellpose">>
ImageB == <<"org", "/", "w_cellpose2">>

\* a parsed descriptor.json
Descriptor(image, inputs) == [image |-> image, inputs |-> inputs]

\* what requests.get gives: ok or not, and as text a descriptor, a json
\* object without "container-image", or no json at all
Fetched(ok, body, d) == [ok |-> ok, body |-> body, descriptor |-> d]
ImageFetches ==
    {Fetched(TRUE, "descriptor", Descriptor(i, <<>>)) : i \in {ImageA, ImageB}}
    \cup {Fetched(FALSE, "garbage", Descriptor(<<>>, <<>>)),
          Fetched(TRUE, "garbage", Descriptor(<<>>, <<>>)),
          Fetched(TRUE, "no_image", Descriptor(<<>>, <<>>))}
InputFetches ==
    {Fetched(TRUE, "descriptor", Descriptor(ImageA, ins)) :
        ins \in SeqsUpTo(DescriptorInputs, MaxInputs)}
    \cup {Fetched(FALSE, "garbage", Descriptor(<<>>, <<>>)),
          Fetched(TRUE, "garbage", Descriptor(<<>>, <<>>))}

\* the keys of a dict of workflows, in the order they were inserted
WorkflowNames == <<<<"c", "p">>, <<"w">>>>
py_keys(d) == SelectSeq(WorkflowNames, LAMBDA w : w \in DOMAIN d)

\* lines 986-998
pull_descriptor_from_github(c, workflow, fetched) ==
    IF workflow \notin DOMAIN c.slurm_model_repos
    THEN [exc |-> "KeyError", url |-> <<>>, json |-> fetched.descriptor]
    ELSE LET raw == convert_url(c.slurm_model_repos[workflow])
         IN  IF raw.exc # ""
             THEN [exc |-> raw.exc, url |-> <<>>, json |-> fetched.descriptor]
             ELSE [exc |-> IF ~fetched.ok THEN "ValueError"
                           ELSE IF fetched.body = "garbage"
                                THEN "JSONDecodeError" ELSE "",
                   url |-> raw.url, json |-> fetched.descriptor]

\* every workflow overwritten, cached or not
should_store_image_always(images, workflow, force_update) == TRUE

\* if workflow not in self.slurm_model_images or force_update
should_store_image(images, workflow, force_update) ==
    workflow \notin DOMAIN images \/ force_update

\* lines 182-187: the loop over the workflows from the i-th on; it ends at
\* the first descriptor that cannot be had
RECURSIVE init_workflows_loop(_, _, _, _, _)
init_workflows_loop(c, keys, i, force_update, fetches) ==
    IF i > Len(keys) THEN [client |-> c, exc |-> "", done |-> i - 1]
    ELSE LET workflow == keys[i]
             d == pull_descriptor_from_github(c, workflow, fetches[workflow])
         IN  IF d.exc # "" THEN [client |-> c, exc |-> d.exc, done |-> i - 1]
             ELSE IF fetches[workflow].body = "no_image"
             THEN [client |-> c, exc |-> "KeyError", done |-> i - 1]
             ELSE LET image == d.json.image
                      c2 == IF should_store_image(c.slurm_model_images,
                                                  workflow, force_update)
                            THEN [c EXCEPT !.slurm_model_images =
                                      (workflow :> image) @@ @]
                            ELSE c
                  IN  init_workflows_loop(c2, keys, i + 1, force_update,
                                          fetches)

\* lines 176-187; a dict that is None or empty becomes {}
init_workflows(c, force_update, fetches) ==
    init_workflows_loop(c, py_keys(c.slurm_model_repos), 1, force_update,
                        fetches)

\* a filter that lets every input through
is_cytomine_input_never(id) == FALSE

\* input['id'].startswith('cytomine')
is_cytomine_input(id) == py_startswith(id, Cytomine)

\* lines 867-878: a later input of the same id takes the place of an earlier
RECURSIVE workflow_dict_of(_)
workflow_dict_of(inputs) ==
    IF inputs = <<>> THEN EmptyDict
    ELSE LET input == inputs[Len(inputs)]
             rest == workflow_dict_of(SubSeq(inputs, 1, Len(inputs) - 1))
         IN  IF ~is_cytomine_input(input.id)
             THEN (input.id :> [name |-> input.id,
                                default |-> input.default_value,
                                cytype |-> input.type,
                                optional |-> input.optional,
                                description |-> input.description]) @@ rest
             ELSE rest

\* lines 864-878
get_workflow_parameters(c, workflow, fetched) ==
    LET d == pull_descriptor_from_github(c, workflow, fetched)
    IN  IF d.exc # "" THEN [exc |-> d.exc, dict |-> EmptyDict]
        ELSE [exc |-> "", dict |-> workflow_dict_of(d.json.inputs)]

\* a Number is a Float only when its default has a fraction
default_is_float_by_value(default) == default.t = "float" /\ default.frac # 0

\* isinstance(_default, float)
default_is_float(default) == default.t = "float"

\* lines 907-920: the name of the omero.scripts class that is instantiated,
\* "None" when no branch is taken
convert_cytype_to_omtype(cytype, default) ==
    IF cytype = "Number"
    THEN IF default_is_float(default) THEN "Float" ELSE "Int"
    ELSE IF cytype = "Boolean" THEN "Bool"
    ELSE IF cytype = "String" THEN "String"
    ELSE "None"

CyTypes == {"Number", "Boolean", "String", "Domain"}
Defaults ==
    {IntVal(0), IntVal(1), FloatVal(0, 0), FloatVal(0, 5), BoolVal(TRUE),
     StrVal(<<"x">>), NoneVal}

---------------------------------------------------------------------------
(* The calls on a client whose workflows are fetched *)

cp == <<"c", "p">>
w == <<"w">>
ConfiguredWorkflows == {cp, w}

RepoMaster == Url(<<"github.com">>, <<<<"org">>, <<"repo">>>>)
RepoBranch == Url(<<"github.com">>, <<<<"org">>, <<"repo">>, <<"tree">>, <<"v2">>>>)
RepoElsewhere == Url(<<"gitlab.com">>, <<<<"org">>, <<"repo">>>>)

\* slurm_model_repos as given to the constructor; None is the empty dict
GivenRepos ==
    {EmptyDict,
     cp :> RepoMaster,
     (cp :> RepoMaster) @@ (w :> RepoBranch),
     (cp :> RepoElsewhere) @@ (w :> RepoBranch)}

\* slurm_model_images as given to the constructor; None is the empty dict
GivenImages ==
    {EmptyDict,
     cp :> ImageB,
     (cp :> ImageA) @@ (w :> ImageB)}

\* lines 154-161: the fields as the constructor assigns them
NewClient(repos, images) ==
    [slurm_data_path |-> <<"my-scratch/data">>,
     slurm_images_path |-> <<"my-scratch/singularity_images/workflows">>,
     slurm_script_path |-> <<"slurm-scripts">>,
     slurm_model_paths |-> (cp :> <<"cellpose">>) @@ (w :> <<"w_path">>),
     slurm_model_repos |-> repos,
     slurm_model_images |-> images,
     slurm_model_jobs |-> (cp :> <<"jobs/cellpose.sh">>)
                          @@ (w :> <<"jobs/w.sh">>)]

\* the answers to the descriptor requests of one call, one per workflow
FetchesOfCall == [ConfiguredWorkflows -> ImageFetches]

\* what comes back from echo " "
ValidateResults == {Result(TRUE, <<SP, NL>>), Result(FALSE, <<>>)}

CallLocalsUnchanged ==
    UNCHANGED <<slurm_job_ids, cmd, retry_status, job_status_dict,
                slurm_job_id>>

\* lines 163-164: init_workflows(), then validate() runs echo " "; a run that
\* is not ok raises unless the connection is configured to warn
SlurmClient_init ==
    /\ pc = "constructing"
    /\ \E fetches \in FetchesOfCall, res \in ValidateResults, warn \in BOOLEAN :
          LET r == init_workflows(client, FALSE, fetches)
          IN  /\ client' = r.client
              /\ args' = [op |-> "__init__", force_update |-> FALSE,
                          fetches |-> fetches, done |-> r.done]
              /\ IF r.exc # ""
                 THEN /\ ret' = Raised("__init__", r.exc, "")
                      /\ trace' = <<>>
                      /\ result' = NoResult
                      /\ pc' = "failed"
                 ELSE /\ trace' = <<RunEvent(<<"echo \" \"">>, EmptyDict, res)>>
                      /\ result' = res
                      /\ IF ~res.ok /\ ~warn
                         THEN /\ ret' = Raised("__init__", "UnexpectedExit", "")
                              /\ pc' = "failed"
                         ELSE /\ ret' = Returned("__init__")
                              /\ pc' = "done"
    /\ retval' = NoValue
    /\ CallLocalsUnchanged

\* lines 166-187, called on the constructed client
init_workflows_call ==
    /\ pc = "idle"
    /\ \E force_update \in BOOLEAN, fetches \in FetchesOfCall :
          LET r == init_workflows(client, force_update, fetches)
          IN  /\ client' = r.client
              /\ args' = [op |-> "init_workflows",
                          force_update |-> force_update,
                          fetches |-> fetches, done |-> r.done]
              /\ ret' = IF r.exc # "" THEN Raised("init_workflows", r.exc, "")
                        ELSE Returned("init_workflows")
    /\ pc' = "done"
    /\ trace' = <<>>
    /\ result' = NoResult
    /\ retval' = NoValue
    /\ CallLocalsUnchanged

\* lines 848-878
get_workflow_parameters_call ==
    /\ pc = "idle"
    /\ \E workflow \in ConfiguredWorkflows, fetched \in InputFetches :
          LET r == get_workflow_parameters(client, workflow, fetched)
          IN  /\ args' = [op |-> "get_workflow_parameters",
                          workflow |-> workflow, fetched |-> fetched]
              /\ retval' = r.dict
              /\ ret' = IF r.exc # ""
                        THEN Raised("get_workflow_parameters", r.exc, "")
                        ELSE Returned("get_workflow_parameters")
    /\ pc' = "done"
    /\ trace' = <<>>
    /\ result' = NoResult
    /\ UNCHANGED client
    /\ CallLocalsUnchanged

\* lines 880-920
convert_cytype_to_omtype_call ==
    /\ pc = "idle"
    /\ \E cytype \in CyTypes, default \in Defaults :
          /\ args' = [op |-> "convert_cytype_to_omtype", cytype |-> cytype,
                      default |-> default]
          /\ retval' = convert_cytype_to_omtype(cytype, default)
    /\ ret' = Returned("convert_cytype_to_omtype")
    /\ pc' = "done"
    /\ trace' = <<>>
    /\ result' = NoResult
    /\ UNCHANGED client
    /\ CallLocalsUnchanged

\* lines 951-971
convert_url_call ==
    /\ pc = "idle"
    /\ \E input_url \in Urls :
          LET r == convert_url(input_url)
          IN  /\ args' = [op |-> "convert_url", input_url |-> input_url]
              /\ retval' = r.url
              /\ ret' = IF r.exc # "" THEN Raised("convert_url", r.exc, "")
                        ELSE Returned("convert_url")
    /\ pc' = "done"
    /\ trace' = <<>>
    /\ result' = NoResult
    /\ UNCHANGED client
    /\ CallLocalsUnchanged

\* the workflow parameters of a call: none, two, two whose names differ in
\* case only, in both orders, and one named as a fixed key is
CommandKwargs ==
    KwargsSet
    \cup {(<<"a">> :> [pos |-> 1, value |-> IntVal(1)])
            @@ (<<"A">> :> [pos |-> 2, value |-> IntVal(2)]),
          (<<"A">> :> [pos |-> 1, value |-> IntVal(2)])
            @@ (<<"a">> :> [pos |-> 2, value |-> IntVal(1)]),
          (<<"data_path">> :> [pos |-> 1, value |-> StrVal(<<"x">>)])
            @@ (<<"b">> :> [pos |-> 2, value |-> BoolVal(TRUE)])}

CommandWorkflows == {cp, <<"C", "P">>, w}

\* a workflow the dicts of the client have no entry for
Unconfigured(c, workflow) ==
    \/ py_lower(workflow) \notin DOMAIN c.slurm_model_paths
    \/ py_lower(workflow) \notin DOMAIN c.slurm_model_jobs
    \/ py_lower(workflow) \notin DOMAIN c.slurm_model_images

\* a call of get_workflow_command that files the image under the name of
\* the workflow as the caller wrote it
get_workflow_command_call_caching ==
    /\ pc = "idle"
    /\ \E workflow \in CommandWorkflows, version \in Versions,
          input \in Inputs, email \in Emails, time \in Times,
          kwargs \in CommandKwargs :
          /\ args' = [op |-> "get_workflow_command", workflow |-> workflow,
                      workflow_version |-> version, input_data |-> input,
                      email |-> email, time |-> time, kwargs |-> kwargs]
          /\ IF Unconfigured(client, workflow)
             THEN /\ retval' = NoValue
                  /\ ret' = Raised("get_workflow_command", "KeyError", "")
                  /\ UNCHANGED client
             ELSE /\ retval' = get_workflow_command(client, workflow, version,
                                                    input, email, time, kwargs)
                  /\ ret' = Returned("get_workflow_command")
                  /\ client' = [client EXCEPT !.slurm_model_images =
                        (workflow :> @[py_lower(workflow)]) @@ @]
    /\ pc' = "done"
    /\ trace' = <<>>
    /\ result' = NoResult
    /\ CallLocalsUnchanged

\* lines 1000-1046
get_workflow_command_call ==
    /\ pc = "idle"
    /\ \E workflow \in CommandWorkflows, version \in Versions,
          input \in Inputs, email \in Emails, time \in Times,
          kwargs \in CommandKwargs :
          /\ args' = [op |-> "get_workflow_command", workflow |-> workflow,
                      workflow_version |-> version, input_data |-> input,
                      email |-> email, time |-> time, kwargs |-> kwargs]
          /\ IF Unconfigured(client, workflow)
             THEN /\ retval' = NoValue
                  /\ ret' = Raised("get_workflow_command", "KeyError", "")
             ELSE /\ retval' = get_workflow_command(client, workflow, version,
                                                    input, email, time, kwargs)
                  /\ ret' = Returned("get_workflow_command")
    /\ pc' = "done"
    /\ trace' = <<>>
    /\ result' = NoResult
    /\ UNCHANGED client
    /\ CallLocalsUnchanged

\* SLURM_CellPose_Segmentation.py, get_cellpose_command: the environment and
\* the command are built from the arguments and three fields
seg_get_cellpose_command(c, image_version, input_data, params, email, time, model, job_script) ==
    LET sbatch_env ==
            (<<"DATA_PATH">> :> (c.slurm_data_path \o <<"/">> \o input_data))
            @@ (<<"IMAGE_PATH">> :> (c.slurm_images_path \o <<"/">> \o model))
            @@ (<<"IMAGE_VERSION">> :> image_version)
        cellpose_env ==
            (<<"DIAMETER">> :> py_format(params.cell_diameter))
            @@ (<<"PROB_THRESHOLD">> :> py_format(params.prob_threshold))
            @@ (<<"NUC_CHANNEL">> :> py_format(params.nuc_channel))
            @@ (<<"CP_MODEL">> :> py_format(params.cp_model))
            @@ (<<"USE_GPU">> :> <<"true">>)
        job_param == sbatch_job_param(email, time)
    IN  [cmd |-> <<"sbatch">> \o job_param \o <<" --output=omero-%4j.log ">>
                 \o c.slurm_script_path \o <<"/jobs/">> \o job_script,
         env |-> merge_env(sbatch_env, cellpose_env)]

\* the four parameters of a cellpose run
CellposeParams ==
    {[cp_model |-> StrVal(<<"nuclei">>), nuc_channel |-> IntVal(0),
      prob_threshold |-> FloatVal(0, 5), cell_diameter |-> FloatVal(0, 0)],
     [cp_model |-> StrVal(<<"cyto">>), nuc_channel |-> IntVal(1),
      prob_threshold |-> FloatVal(0, 0), cell_diameter |-> FloatVal(1, 5)]}

seg_get_cellpose_command_call ==
    /\ pc = "idle"
    /\ \E version \in Versions, input \in Inputs, params \in CellposeParams,
          email \in Emails, time \in Times :
          /\ args' = [op |-> "get_cellpose_command",
                      workflow_version |-> version, input_data |-> input,
                      email |-> email, time |-> time, params |-> params]
          /\ retval' = seg_get_cellpose_command(client, version, input, params,
                            email, time, <<"cellpose">>, <<"cellpose.sh">>)
    /\ ret' = Returned("get_cellpose_command")
    /\ pc' = "done"
    /\ trace' = <<>>
    /\ result' = NoResult
    /\ UNCHANGED client
    /\ CallLocalsUnchanged

\* the filter of a call: left out, None, or some pattern
UnzipFilters ==
    {[given |-> FALSE, value |-> DefaultFilter],
     [given |-> TRUE, value |-> None],
     [given |-> TRUE, value |-> Some(<<"*">>)],
     [given |-> TRUE, value |-> Some(<<"*.png">>)]}
Zipfiles == {<<"exp001">>, <<"b">>}

\* lines 1207-1237
get_unzip_command_call ==
    /\ pc = "idle"
    /\ \E zipfile \in Zipfiles, filter_filetypes \in UnzipFilters :
          /\ args' = [op |-> "get_unzip_command", zipfile |-> zipfile,
                      filter_filetypes |-> filter_filetypes]
          /\ retval' = get_unzip_command(client, zipfile,
                                         filter_filetypes.value)
    /\ ret' = Returned("get_unzip_command")
    /\ pc' = "done"
    /\ trace' = <<>>
    /\ result' = NoResult
    /\ UNCHANGED client
    /\ CallLocalsUnchanged

---------------------------------------------------------------------------
(* The progress of a job, the split output, the commands that give back
   their Result *)

\* most symbols of the tail of a log
MaxLog == 4
\* most commands of a list given to run_commands_split_out
MaxCmds == 2

\* the run of a remote command that raised instead of giving a Result
RaiseEvent(c, env) ==
    [kind |-> "run", cmd |-> c, env |-> env, secs |-> 0, resp |-> "raised"]

\* a remote command either gives a Result or raises
Outcome(raised, r) == [raised |-> raised, result |-> r]

\* n of get_recent_log_command
recent_log_lines == 10

\* _TAIL_LOG_CMD.format(n=n, log_file=log_file)
get_recent_log_command(log_file, n) ==
    <<"tail -n ">> \o py_str(n) \o <<" ">> \o log_file \o <<" | strings">>

\* _LOGFILE.format(slurm_job_id=slurm_job_id)
LOGFILE(id) == <<"omero-">> \o id \o <<".log">>

\* the digits at s[i], s[i+1], ...: how many there are
RECURSIVE digits_at(_, _)
digits_at(s, i) ==
    IF i > Len(s) \/ s[i] \notin Digits THEN 0 ELSE 1 + digits_at(s, i + 1)

\* re.findall("\d+%", s) from place i on: at every place the longest run of
\* digits is tried and must be followed by %; after a match the search goes
\* on behind it
RECURSIVE re_findall_from(_, _)
re_findall_from(s, i) ==
    IF i > Len(s) THEN <<>>
    ELSE LET n == digits_at(s, i)
         IN  IF n > 0 /\ i + n <= Len(s) /\ s[i + n] = "%"
             THEN <<SubSeq(s, i, i + n)>> \o re_findall_from(s, i + n + 1)
             ELSE re_findall_from(s, i + 1)

re_findall(s) == re_findall_from(s, 1)

\* the first match in place of the last
latest_progress_first(matches) == matches[1]

\* re.findall(pattern, result.stdout)[-1]
latest_progress_of(matches) == matches[Len(matches)]

\* the tails of a log and what running the tail command gives
LogSymbols == {"1", "5", "%", "x"}
ProgressOutcomes ==
    {Outcome(FALSE, Result(ok, out)) :
        ok \in BOOLEAN, out \in SeqsUpTo(LogSymbols, MaxLog)}
    \cup {Outcome(TRUE, NoResult)}

\* job ids as the scripts have them, strings
JobIdStrings == {<<"1">>, <<"1", "2">>}

\* lines 367-402: both excepts only log; result and latest_progress are
\* unbound names when their assignment was not reached
get_active_job_progress_call ==
    /\ pc = "idle"
    /\ \E id \in JobIdStrings, o \in ProgressOutcomes :
          LET c == get_recent_log_command(LOGFILE(id), recent_log_lines)
              matches == IF o.raised THEN <<>> ELSE re_findall(o.result.stdout)
          IN  /\ args' = [op |-> "get_active_job_progress",
                          slurm_job_id |-> id]
              /\ trace' = <<IF o.raised THEN RaiseEvent(c, EmptyDict)
                            ELSE RunEvent(c, EmptyDict, o.result)>>
              /\ result' = o.result
              /\ IF matches = <<>>
                 THEN /\ ret' = Raised("get_active_job_progress",
                                       "UnboundLocalError", "")
                      /\ retval' = NoValue
                 ELSE /\ ret' = Returned("get_active_job_progress")
                      /\ retval' = <<"Progress: ">>
                                   \o latest_progress_of(matches) \o <<NL>>
    /\ pc' = "done"
    /\ UNCHANGED client
    /\ CallLocalsUnchanged

\* what a command that is not a submission and not a query gives back
RemoteResults ==
    {Result(ok, out) : ok \in BOOLEAN, out \in {<<>>, <<"out", NL>>}}

\* _ZIP_CMD.format(filename=filename, data_location=data_location)
get_zip_command(data_location, filename) ==
    <<"7z a -y ">> \o filename \o <<" -tzip ">> \o data_location
    \o <<"/data/out">>

DataLocations == {<<"/data/my-scratch/data/exp001">>}

\* lines 1138-1157: the Result of the zip command is the return value
zip_data_on_slurm_server_call ==
    /\ pc = "idle"
    /\ \E data_location \in DataLocations, id \in JobIdStrings,
          res \in RemoteResults :
          /\ args' = [op |-> "zip_data_on_slurm_server",
                      data_location |-> data_location,
                      filename |-> id \o <<"_out">>]
          /\ trace' = <<RunEvent(get_zip_command(data_location,
                                                 id \o <<"_out">>),
                                 EmptyDict, res)>>
          /\ result' = res
          /\ retval' = res
    /\ ret' = Returned("zip_data_on_slurm_server")
    /\ pc' = "done"
    /\ UNCHANGED client
    /\ CallLocalsUnchanged

\* SLURM_CellPose_Segmentation.py, unpack_data: the Result of the unzip
\* command is the return value
seg_unpack_data_call ==
    /\ pc = "idle"
    /\ \E zipfile \in Zipfiles, res \in RemoteResults :
          /\ args' = [op |-> "unpack_data", zipfile |-> zipfile]
          /\ trace' = <<RunEvent(get_unzip_command(client, zipfile,
                                                   DefaultFilter),
                                 EmptyDict, res)>>
          /\ result' = res
          /\ retval' = res
    /\ ret' = Returned("unpack_data")
    /\ pc' = "done"
    /\ UNCHANGED client
    /\ CallLocalsUnchanged

\* _OUT_SEP
OUT_SEP == "--split--"

\* one command of a list as the remote shell runs it: its exit and its output
ShellCommand(ok, out) == [ok |-> ok, out |-> out]
ShellCommands ==
    {ShellCommand(ok, out) : ok \in BOOLEAN, out \in {<<>>, <<"a", NL>>}}
CommandLists == SeqsUpTo(ShellCommands, MaxCmds) \ {<<>>}

\* the shell line c1 ; echo --split-- ; c2 ...: every command runs, the exit
\* is that of the last command
RECURSIVE shell_semicolon_out(_)
shell_semicolon_out(cmds) ==
    IF Len(cmds) = 1 THEN cmds[1].out
    ELSE cmds[1].out \o <<OUT_SEP, NL>> \o shell_semicolon_out(Tail(cmds))

shell_semicolon(cmds) ==
    Result(cmds[Len(cmds)].ok, shell_semicolon_out(cmds))

\* the shell line c1 && echo --split-- && c2 ...: the line ends at the first
\* command that fails, and then the exit is a failure
RECURSIVE shell_and_out(_)
shell_and_out(cmds) ==
    IF Len(cmds) = 1 \/ ~cmds[1].ok THEN cmds[1].out
    ELSE cmds[1].out \o <<OUT_SEP, NL>> \o shell_and_out(Tail(cmds))

shell_and(cmds) ==
    Result(\A i \in 1..Len(cmds) : cmds[i].ok, shell_and_out(cmds))

\* a split that is returned whatever result.ok is
split_out_unchecked(op, res) ==
    [ret |-> Returned(op), value |-> py_split(res.stdout, OUT_SEP)]

\* if result.ok: return response.split(self._OUT_SEP); else raise
split_out(op, res) ==
    IF res.ok
    THEN [ret |-> Returned(op), value |-> py_split(res.stdout, OUT_SEP)]
    ELSE [ret |-> Raised(op, "SSHException", "Result is not ok"),
          value |-> NoValue]

\* lines 469-507: the commands are joined with " ; echo --split-- ; "
run_commands_split_out_call ==
    /\ pc = "idle"
    /\ \E cmds \in CommandLists :
          LET res == shell_semicolon(cmds)
              r == split_out("run_commands_split_out", res)
          IN  /\ args' = [op |-> "run_commands_split_out", cmds |-> cmds,
                          sep |-> " ; echo --split-- ; "]
              /\ trace' = <<RunEvent(<<"cmdlist">>, EmptyDict, res)>>
              /\ result' = res
              /\ ret' = r.ret
              /\ retval' = r.value
    /\ pc' = "done"
    /\ UNCHANGED client
    /\ CallLocalsUnchanged

\* SLURM_CellPose_Segmentation.py, run_commands_split_out: the commands are
\* joined with " && echo --split-- && "
seg_run_commands_split_out_call ==
    /\ pc = "idle"
    /\ \E cmds \in CommandLists :
          LET res == shell_and(cmds)
              r == split_out("run_commands_split_out", res)
          IN  /\ args' = [op |-> "run_commands_split_out", cmds |-> cmds,
                          sep |-> " && echo --split-- && "]
              /\ trace' = <<RunEvent(<<"cmdlist">>, EmptyDict, res)>>
              /\ result' = res
              /\ ret' = r.ret
              /\ retval' = r.value
    /\ pc' = "done"
    /\ UNCHANGED client
    /\ CallLocalsUnchanged

\* lines 922-949
extract_parts_from_url_call ==
    /\ pc = "idle"
    /\ \E input_url \in Urls :
          LET r == extract_parts_from_url(input_url)
          IN  /\ args' = [op |-> "extract_parts_from_url",
                          input_url |-> input_url]
              /\ retval' = [url_parts |-> r.url_parts, branch |-> r.branch]
              /\ ret' = IF r.exc # ""
                        THEN Raised("extract_parts_from_url", r.exc, "")
                        ELSE Returned("extract_parts_from_url")
    /\ pc' = "done"
    /\ trace' = <<>>
    /\ result' = NoResult
    /\ UNCHANGED client
    /\ CallLocalsUnchanged

\* the object when its fields are assigned and init_workflows is to run
InitBuild ==
    /\ client \in {NewClient(repos, images) :
                      repos \in GivenRepos, images \in GivenImages}
    /\ pc = "constructing"
    /\ slurm_job_ids = <<>>
    /\ cmd = <<>>
    /\ retry_status = 0
    /\ result = NoResult
    /\ trace = <<>>
    /\ ret = NoReturn
    /\ job_status_dict = EmptyDict
    /\ slurm_job_id = -1
    /\ args = NoArgs
    /\ retval = NoValue

NextBuild ==
    \/ SlurmClient_init
    \/ init_workflows_call
    \/ get_workflow_parameters_call
    \/ convert_cytype_to_omtype_call
    \/ convert_url_call
    \/ get_workflow_command_call
    \/ seg_get_cellpose_command_call
    \/ get_unzip_command_call
    \/ list_active_jobs
    \/ list_completed_jobs
    \/ list_all_jobs
    \/ get_active_job_progress_call
    \/ zip_data_on_slurm_server_call
    \/ seg_unpack_data_call
    \/ run_commands_split_out_call
    \/ seg_run_commands_split_out_call
    \/ extract_parts_from_url_call
    \/ caller_continues

SpecBuild == InitBuild /\ [][NextBuild]_vars

---------------------------------------------------------------------------
(* The two scripts: runScript of SLURM_CellPose_Segmentation.py and runScript
   of SLURM_Get_Results.py.  Each is a run of steps from the try statement
   on; trace has the remote commands and the steps in the order they are
   taken, retval the text for the "Message" output once it is assigned, ret
   the exception that is on its way out of the try statement. *)

\* a step that is no remote command: its name and how it went
StepEvent(step, outcome) ==
    [kind |-> "step", cmd |-> <<step>>, env |-> EmptyDict, secs |-> 0,
     resp |-> outcome]

\* f"{n}" of an int that may be negative
py_str_int(n) == IF n < 0 THEN <<"-">> \o py_str(0 - n) ELSE py_str(n)

\* a remote command gives one of the results rs or raises
OutcomesOf(rs) ==
    {Outcome(FALSE, r) : r \in rs} \cup {Outcome(TRUE, NoResult)}

\* the event of a remote command with outcome o
RemoteEvent(c, env, o) ==
    IF o.raised THEN RaiseEvent(c, env) ELSE RunEvent(c, env, o.result)

\* the exception of a failed transfer or remote call on its way out
Propagating(exc) == Raised("runScript", exc, "")

\* the inputs of the segmentation script: Duration has a default, E-mail is
\* None when it is left at "No"
SegInputs ==
    {[op |-> "runScript", script |-> "segmentation",
      zipfile |-> <<"exp001">>, version |-> <<"v1.2">>,
      params |-> params, email |-> email, time |-> Some(<<"00:15:00">>)] :
        params \in {p \in CellposeParams : p.nuc_channel = IntVal(0)},
        email \in Emails}

\* the inputs of the script that gets the results
ResInputs ==
    {[op |-> "runScript", script |-> "results", completed |-> completed,
      slurm_job_id |-> <<"1">>, data_location |-> None] :
        completed \in BOOLEAN}

\* f"git -C {self.slurm_script_path} pull"
get_update_slurm_scripts_command(c) ==
    <<"git -C ">> \o c.slurm_script_path \o <<" pull">>

\* SLURM_CellPose_Segmentation.py, get_job_status_command
seg_get_job_status_command(id) == <<JOB_STATUS_CMD>> \o py_str_int(id)

\* what the status query of the segmentation script gives
PollResults ==
    {Result(TRUE, <<"1", SP, "RUNNING", NL>>), Result(TRUE, <<>>),
     Result(FALSE, <<>>)}

\* every step follows, whatever the result of the one before
seg_gate_open(res, next) == next

\* if not result.ok: print the error, else: the next step
seg_gate(res, next) == IF res.ok THEN next ELSE "seg_output"

\* a remote call of the segmentation script outside the inner try: when it
\* raises the finally clause is next, else the gate decides
seg_after(o, next) ==
    IF o.raised THEN "seg_close" ELSE seg_gate(o.result, next)

seg_runScript_unpack ==
    /\ pc = "seg_unpack"
    /\ \E o \in OutcomesOf(RemoteResults) :
          /\ trace' = Append(trace,
                RemoteEvent(get_unzip_command(client, args.zipfile,
                                              DefaultFilter), EmptyDict, o))
          /\ result' = o.result
          /\ ret' = IF o.raised THEN Propagating("Exception") ELSE ret
          /\ pc' = seg_after(o, "seg_update")
    /\ UNCHANGED <<client, args, retval>>
    /\ CallLocalsUnchanged

seg_runScript_update ==
    /\ pc = "seg_update"
    /\ \E o \in OutcomesOf(RemoteResults) :
          /\ trace' = Append(trace,
                RemoteEvent(get_update_slurm_scripts_command(client),
                            EmptyDict, o))
          /\ result' = o.result
          /\ ret' = IF o.raised THEN Propagating("Exception") ELSE ret
          /\ pc' = seg_after(o, "seg_submit")
    /\ UNCHANGED <<client, args, retval>>
    /\ CallLocalsUnchanged

\* lines 573-587: run_cellpose, and after a submission that is ok the job id
\* and the first text of print_result
seg_runScript_submit ==
    /\ pc = "seg_submit"
    /\ \E o \in OutcomesOf(SbatchResults) :
          LET sb == seg_get_cellpose_command(client, args.version,
                        args.zipfile, args.params, args.email, args.time,
                        <<"cellpose">>, <<"cellpose.sh">>)
              submitted == ~o.raised /\ o.result.ok
              id == extract_job_id(o.result)
          IN  /\ trace' = Append(trace, RemoteEvent(sb.cmd, sb.env, o))
              /\ result' = o.result
              /\ ret' = IF o.raised THEN Propagating("Exception") ELSE ret
              /\ pc' = seg_after(o, "seg_poll")
              /\ slurm_job_id' = IF submitted THEN id ELSE slurm_job_id
              /\ retval' = IF submitted
                           THEN Some(<<"Submitted to Slurm as batch job ">>
                                     \o py_str_int(id) \o <<".">>)
                           ELSE retval
    /\ UNCHANGED <<client, args, slurm_job_ids, cmd, retry_status,
                   job_status_dict>>

\* lines 589-600: the status query has a try of its own
seg_runScript_poll ==
    /\ pc = "seg_poll"
    /\ \E o \in OutcomesOf(PollResults) :
          /\ trace' = Append(trace,
                RemoteEvent(seg_get_job_status_command(slurm_job_id),
                            EmptyDict, o))
          /\ result' = o.result
          /\ retval' = IF o.raised
                       THEN Some(retval.v \o <<" ERROR WITH JOB: ">>)
                       ELSE IF o.result.ok
                       THEN Some(retval.v \o <<NL>> \o o.result.stdout)
                       ELSE retval
    /\ pc' = "seg_output"
    /\ UNCHANGED <<client, args, ret>>
    /\ CallLocalsUnchanged

\* line 603: print_result is a name without a value unless the submission
\* was ok
seg_runScript_output ==
    /\ pc = "seg_output"
    /\ IF retval.some
       THEN /\ trace' = Append(trace, StepEvent("setOutput", "ok"))
            /\ ret' = ret
       ELSE /\ trace' = trace
            /\ ret' = Propagating("UnboundLocalError")
    /\ pc' = "seg_close"
    /\ UNCHANGED <<client, args, retval, result>>
    /\ CallLocalsUnchanged

\* lines 604-605
seg_runScript_close ==
    /\ pc = "seg_close"
    /\ trace' = Append(trace, StepEvent("closeSession", "ok"))
    /\ ret' = IF ret.kind = "raise" THEN ret ELSE Returned("runScript")
    /\ pc' = "ended"
    /\ UNCHANGED <<client, args, retval, result>>
    /\ CallLocalsUnchanged

\* a transfer whose error is passed over
after_transfer_swallowed(raised, next) == next

\* self.get raises when the transfer fails: the finally clause is next
after_transfer(raised, next) == IF raised THEN "res_close" ELSE next

\* a step on the server that ends the steps when it fails
after_local_step_aborting(outcome, next) ==
    IF outcome = "failed" THEN "res_output" ELSE next

\* the four steps after the copy catch their exceptions: the next step
\* follows
after_local_step(outcome, next) == next

LocalOutcomes == {"ok", "failed"}

\* lines 1569-1580: the state of the job is asked for when Completed Job is
\* set; check_job_status returns or raises
runScript_status ==
    /\ pc = "res_status"
    /\ IF args.completed
       THEN \E raised \in BOOLEAN :
               /\ trace' = Append(trace,
                     StepEvent("check_job_status",
                               IF raised THEN "raised" ELSE "returned"))
               /\ ret' = IF raised THEN Propagating("SSHException") ELSE ret
               /\ retval' = IF raised THEN retval
                            ELSE Some(retval.v \o <<NL, "1 COMPLETED">>)
               /\ pc' = IF raised THEN "res_close" ELSE "res_log"
       ELSE /\ UNCHANGED <<trace, ret, retval>>
            /\ pc' = "res_output"
    /\ UNCHANGED <<client, args, result>>
    /\ CallLocalsUnchanged

\* lines 1584-1589
runScript_logfile ==
    /\ pc = "res_log"
    /\ \E raised \in BOOLEAN :
          /\ trace' = Append(trace,
                StepEvent("get_logfile_from_slurm",
                          IF raised THEN "raised" ELSE "returned"))
          /\ ret' = IF raised THEN Propagating("OSError") ELSE ret
          /\ retval' = IF raised THEN retval
                       ELSE Some(retval.v
                                 \o <<"\nSuccesfully copied logfile.">>)
          /\ pc' = after_transfer(raised, "res_extract")
    /\ UNCHANGED <<client, args, result>>
    /\ CallLocalsUnchanged

\* lines 1592-1596: the first line of the log that matches gives the data
\* location, no such line gives None
runScript_extract ==
    /\ pc = "res_extract"
    /\ \E data_location \in {None} \cup {Some(l) : l \in DataLocations} :
          /\ args' = [args EXCEPT !.data_location = data_location]
          /\ trace' = Append(trace,
                StepEvent("extract_data_location_from_log",
                          IF data_location.some THEN "found" ELSE "none"))
          /\ pc' = IF data_location.some THEN "res_zip" ELSE "res_output"
    /\ UNCHANGED <<client, ret, retval, result>>
    /\ CallLocalsUnchanged

\* lines 1598-1606
runScript_zip ==
    /\ pc = "res_zip"
    /\ \E o \in OutcomesOf(RemoteResults) :
          /\ trace' = Append(trace,
                RemoteEvent(get_zip_command(args.data_location.v,
                                args.slurm_job_id \o <<"_out">>),
                            EmptyDict, o))
          /\ result' = o.result
          /\ ret' = IF o.raised THEN Propagating("Exception") ELSE ret
          /\ retval' = IF o.raised THEN retval
                       ELSE IF ~o.result.ok
                       THEN Some(retval.v
                                 \o <<"\nFailed to zip data on Slurm.">>)
                       ELSE Some(retval.v
                                 \o <<"\nSuccesfully zipped data on Slurm.">>)
          /\ pc' = IF o.raised THEN "res_close"
                   ELSE IF ~o.result.ok THEN "res_output" ELSE "res_copy"
    /\ UNCHANGED <<client, args>>
    /\ CallLocalsUnchanged

\* lines 1608-1612
runScript_copy ==
    /\ pc = "res_copy"
    /\ \E raised \in BOOLEAN :
          /\ trace' = Append(trace,
                StepEvent("copy_zip_locally",
                          IF raised THEN "raised" ELSE "returned"))
          /\ ret' = IF raised THEN Propagating("OSError") ELSE ret
          /\ retval' = IF raised THEN retval
                       ELSE Some(retval.v \o <<"\nSuccesfully copied zip.">>)
          /\ pc' = after_transfer(raised, "res_upload_zip")
    /\ UNCHANGED <<client, args, result>>
    /\ CallLocalsUnchanged

\* lines 1473-1503, called at 1616
runScript_upload_zip ==
    /\ pc = "res_upload_zip"
    /\ \E outcome \in LocalOutcomes :
          /\ trace' = Append(trace, StepEvent("upload_zip_to_omero", outcome))
          /\ retval' = Some(retval.v \o
                            <<IF outcome = "ok" THEN "Attached zip to "
                              ELSE " Uploading zip failed: ">>)
          /\ pc' = after_local_step(outcome, "res_unzip")
    /\ UNCHANGED <<client, args, ret, result>>
    /\ CallLocalsUnchanged

\* lines 1455-1470, called at 1620
runScript_unzip ==
    /\ pc = "res_unzip"
    /\ \E outcome \in LocalOutcomes :
          /\ trace' = Append(trace, StepEvent("unzip_zip_locally", outcome))
          /\ retval' = IF outcome = "ok" THEN retval
                       ELSE Some(retval.v \o <<" Unzip failed: ">>)
          /\ pc' = after_local_step(outcome, "res_upload_contents")
    /\ UNCHANGED <<client, args, ret, result>>
    /\ CallLocalsUnchanged

\* lines 1436-1452, called at 1622
runScript_upload_contents ==
    /\ pc = "res_upload_contents"
    /\ \E outcome \in LocalOutcomes :
          /\ trace' = Append(trace,
                             StepEvent("upload_contents_to_omero", outcome))
          /\ retval' = Some(retval.v \o
                            <<IF outcome = "ok" THEN "msg"
                              ELSE " Failed to upload images to OMERO: ">>)
          /\ pc' = after_local_step(outcome, "res_cleanup")
    /\ UNCHANGED <<client, args, ret, result>>
    /\ CallLocalsUnchanged

\* lines 1419-1433, called at 1625
runScript_cleanup ==
    /\ pc = "res_cleanup"
    /\ \E outcome \in LocalOutcomes :
          /\ trace' = Append(trace,
                             StepEvent("cleanup_tmp_files_locally", outcome))
          /\ retval' = IF outcome = "ok" THEN retval
                       ELSE Some(retval.v
                                 \o <<" Failed to cleanup tmp files: ">>)
          /\ pc' = after_local_step(outcome, "res_output")
    /\ UNCHANGED <<client, args, ret, result>>
    /\ CallLocalsUnchanged

\* line 1631: message has a value from line 1563 on
runScript_output ==
    /\ pc = "res_output"
    /\ trace' = Append(trace, StepEvent("setOutput", "ok"))
    /\ pc' = "res_close"
    /\ UNCHANGED <<client, args, ret, retval, result>>
    /\ CallLocalsUnchanged

\* lines 1633-1634
runScript_close ==
    /\ pc = "res_close"
    /\ trace' = Append(trace, StepEvent("closeSession", "ok"))
    /\ ret' = IF ret.kind = "raise" THEN ret ELSE Returned("runScript")
    /\ pc' = "ended"
    /\ UNCHANGED <<client, args, retval, result>>
    /\ CallLocalsUnchanged

\* a script at its try statement: the segmentation script has no value for
\* print_result, the other script has message = ""
InitScripts ==
    /\ client = InitClient
    /\ \/ args \in SegInputs /\ pc = "seg_unpack" /\ retval = None
       \/ args \in ResInputs /\ pc = "res_status" /\ retval = Some(<<>>)
    /\ slurm_job_ids = <<>>
    /\ cmd = <<>>
    /\ retry_status = 0
    /\ result = NoResult
    /\ trace = <<>>
    /\ ret = NoReturn
    /\ job_status_dict = EmptyDict
    /\ slurm_job_id = -1

NextScripts ==
    \/ seg_runScript_unpack
    \/ seg_runScript_update
    \/ seg_runScript_submit
    \/ seg_runScript_poll
    \/ seg_runScript_output
    \/ seg_runScript_close
    \/ runScript_status
    \/ runScript_logfile
    \/ runScript_extract
    \/ runScript_zip
    \/ runScript_copy
    \/ runScript_upload_zip
    \/ runScript_unzip
    \/ runScript_upload_contents
    \/ runScript_cleanup
    \/ runScript_output
    \/ runScript_close

SpecScripts == InitScripts /\ [][NextScripts]_vars

---------------------------------------------------------------------------
(* Properties of check_job_status *)

\* a check_job_status call is running or has just ended
InCjs ==
    \/ pc \in {"cjs_while", "cjs_sleep"}
    \/ pc = "done" /\ ret.op = "check_job_status"
CjsDone == pc = "done" /\ ret.op = "check_job_status"

\* the answers of the attempts made so far, in order
Resps == [i \in 1..Len(Runs(trace)) |-> Runs(trace)[i].resp]
AllEmpty == \A i \in 1..Len(Resps) : Resps[i] = "ok_empty"
SleptSeconds ==
    LET sl == Sleeps(trace)
        sum[i \in 0..Len(sl)] == IF i = 0 THEN 0 ELSE sum[i - 1] + sl[i].secs
    IN  sum[Len(sl)]

\* C1: when every attempt of check_job_status gets a successful but empty
\* answer, the call ends by raising, after exactly 3 attempts: never more
\* than 3 remote commands are issued and the call does not end before the
\* third.
C1_EmptyThrice ==
    (InCjs /\ AllEmpty) =>
        /\ Len(Runs(trace)) <= 3
        /\ CjsDone => (ret.kind = "raise" /\ Len(Runs(trace)) = 3)

C1_Witness ==
    /\ CjsDone /\ AllEmpty
    /\ ret.kind = "raise"
    /\ Len(Runs(trace)) = 3

\* every line of the answer is a row: a number, a state, maybe more
ValidRows(stdout) ==
    /\ StatusLines(stdout) # <<>>
    /\ \A i \in 1..Len(StatusLines(stdout)) :
          LET f == py_split_ws(StatusLines(stdout)[i])
          IN  Len(f) >= 2 /\ py_isdigit(f[1])

\* the mapping the rows of a valid answer stand for: the job id of each row,
\* with the state of the last row of that job id
RowsMapping(d, stdout) ==
    LET rows == StatusLines(stdout)
        key(i) == py_int(py_split_ws(rows[i])[1])
    IN  /\ DOMAIN d = {key(i) : i \in 1..Len(rows)}
        /\ \A i \in 1..Len(rows) :
              (\A j \in (i + 1)..Len(rows) : key(j) # key(i))
                  => d[key(i)] = py_split_ws(rows[i])[2]

\* C2: after two successful empty answers check_job_status makes a third
\* attempt, and when that one answers with valid rows the call returns the
\* mapping of those rows, having paused twice (2 x 3 s) and no more.
C2_ThirdAttemptSucceeds ==
    (CjsDone /\ Len(Resps) >= 2 /\ Resps[1] = "ok_empty"
             /\ Resps[2] = "ok_empty") =>
        /\ Len(Resps) = 3
        /\ (Resps[3] = "ok_output" /\ ValidRows(result.stdout)) =>
              /\ ret.kind = "return"
              /\ RowsMapping(job_status_dict, result.stdout)
              /\ Len(Sleeps(trace)) <= 2
              /\ SleptSeconds <= 2 * 3

C2_Witness ==
    /\ CjsDone
    /\ Resps = <<"ok_empty", "ok_empty", "ok_output">>
    /\ ret.kind = "return"
    /\ job_status_dict = (1 :> <<"RUNNING">>) @@ (2 :> <<"COMPLETED">>)
    /\ Len(Sleeps(trace)) = 2

\* C3: in check_job_status a non-success answer, on whichever attempt, ends
\* the call with an error at once: it is the last thing on the session, no
\* command and no pause follows it.
C3_NotOkFailsAtOnce ==
    InCjs =>
        \A i \in 1..Len(trace) :
            (trace[i].kind = "run" /\ trace[i].resp = "not_ok") =>
                /\ i = Len(trace)
                /\ pc = "done"
                /\ ret.kind = "raise"

C3_Witness ==
    /\ CjsDone
    /\ Resps = <<"ok_empty", "ok_empty", "not_ok">>
    /\ ret.kind = "raise"
    /\ trace[Len(trace)].kind = "run"

\* what is left of a check_job_status call: it falls with every step
CjsVariant ==
    IF pc = "cjs_while" THEN 2 * (max_retries - retry_status) + 1
    ELSE IF pc = "cjs_sleep" THEN 2 * (max_retries - retry_status)
    ELSE 0

CjsStep ==
    \/ check_job_status_attempt
    \/ check_job_status_sleep
    \/ check_job_status_exhausted

C4_Bounded ==
    InCjs =>
        /\ Len(Runs(trace)) <= 3
        /\ Len(Sleeps(trace)) <= 3
        /\ SleptSeconds <= 9
        /\ CjsVariant >= 0
        \* one command an attempt, the same each time, with every id in it
        /\ \A i \in 1..Len(trace) :
              trace[i].kind = "run" =>
                  /\ trace[i].cmd = cmd
                  /\ Cardinality({k \in 1..Len(cmd) : cmd[k] = " -j "})
                        = Len(slurm_job_ids) - 1
        /\ pc # "done" => ENABLED CjsStep

\* C4: one check_job_status call, for any job ids and any answers of the
\* backend, ends (it returns or raises) after at most 3 remote commands, one
\* for each attempt however many ids are asked for, and at most 3 pauses of
\* 3 seconds (9 seconds): a running call can always take its next step and
\* every step brings it nearer to its end.
C4_TerminatesBounded ==
    /\ []C4_Bounded
    /\ [][(pc \in {"cjs_while", "cjs_sleep"}) =>
            (InCjs' /\ CjsVariant' < CjsVariant)]_vars

C4_Witness ==
    /\ CjsDone
    /\ Len(slurm_job_ids) = 2
    /\ Len(Runs(trace)) = 3
    /\ Len(Sleeps(trace)) = 3

\* C5: the pause of check_job_status is taken only between two attempts: a
\* call that made k attempts has paused k - 1 times, and its last step on the
\* session is an attempt, not a pause.
C5_PauseOnlyBetweenAttempts ==
    CjsDone =>
        /\ Len(Sleeps(trace)) = Len(Runs(trace)) - 1
        /\ trace[Len(trace)].kind = "run"

\* the two ways check_job_status gives up
CjsGaveUp == CjsDone /\ ret.kind = "raise" /\ Len(Resps) = 3 /\ AllEmpty
CjsNotOk == CjsDone /\ ret.kind = "raise" /\ Resps[Len(Resps)] = "not_ok"

---------------------------------------------------------------------------
(* Properties of run_workflow and extract_job_id *)

RwDone == pc = "done" /\ ret.op = "run_workflow"

\* the numeric token after the marker at place i of s: the digits after the
\* spaces that follow the marker, up to the end or to whitespace
TokenAfter(s, i) ==
    LET rest == SubSeq(s, i + 1, Len(s))
        sp == {k \in 1..Len(rest) : rest[k] # SP}
        from == IF sp = {} THEN Len(rest) + 1
                ELSE CHOOSE k \in sp : \A j \in sp : k <= j
        stop == {k \in from..Len(rest) : rest[k] \in Whitespace}
        to == IF stop = {} THEN Len(rest)
              ELSE (CHOOSE k \in stop : \A j \in stop : k <= j) - 1
    IN  SubSeq(rest, from, to)

Markers(s) == {i \in 1..Len(s) : s[i] = marker}
MarkedNumbers(s) == {py_int(TokenAfter(s, i)) :
                        i \in {k \in Markers(s) : py_isdigit(TokenAfter(s, k))}}

\* C7: for a stdout with the phrase "Submitted batch job" followed by a
\* numeric token, whatever text is before the phrase or after the token,
\* extract_job_id returns that integer.
C7_ReturnsMarkedNumber ==
    (RwDone /\ Cardinality(MarkedNumbers(result.stdout)) = 1) =>
        slurm_job_id \in MarkedNumbers(result.stdout)

\* C8: for a stdout without the phrase "Submitted batch job", the empty one
\* and one of digits only too, extract_job_id returns -1.
C8_NoMarkerNoId ==
    (RwDone /\ Markers(result.stdout) = {}) => slurm_job_id = -1

\* C9: one run_workflow call issues exactly one remote command, the sbatch
\* submission, whether it succeeds or fails; a failed submission is returned
\* with its result and not submitted again.
C9_OneSubmission ==
    RwDone =>
        /\ Len(trace) = 1
        /\ trace[1].kind = "run"
        /\ trace[1].cmd[1] = "sbatch"
        /\ ret.kind = "return"
        /\ (trace[1].resp = "not_ok") = ~result.ok

C9_Witness ==
    /\ RwDone
    /\ ~result.ok
    /\ Len(Runs(trace)) = 1
    /\ trace[1].resp = "not_ok"

\* C10: run_workflow returns a job id other than -1 only for a submission
\* that succeeded: with a result that is not ok the id is -1, whatever the
\* stdout holds.
C10_IdOnlyOnSuccess ==
    (RwDone /\ ~result.ok) => slurm_job_id = -1

---------------------------------------------------------------------------
(* Properties of the list methods *)

ListDone ==
    /\ pc = "done"
    /\ ret.op \in {"list_active_jobs", "list_completed_jobs", "list_all_jobs"}

\* the lines of an output: what stands before each newline, and what is left
\* after the last one when that is not empty
OutputLines(stdout) ==
    LET p == py_split(stdout, NL)
    IN  IF p[Len(p)] = <<>> THEN SubSeq(p, 1, Len(p) - 1) ELSE p

\* the job id of a line, without the padding
JobIdsOf(ls) == [i \in 1..Len(ls) |-> py_strip(ls[i])]

\* C11: the list methods return the job ids of the lines l1..ln of the raw
\* output in reversed order, [ln, ..., l1]: as many ids as the output has
\* lines, none dropped, added or twice.
C11_ReversedLines ==
    ListDone =>
        JobIdsOf(retval) = py_reverse(JobIdsOf(OutputLines(result.stdout)))


---------------------------------------------------------------------------
(* Properties of get_workflow_command *)

GwcDone ==
    /\ pc = "done"
    /\ ret.op = "get_workflow_command"
    /\ ret.kind = "return"

FixedKeys ==
    {<<"DATA_PATH">>, <<"IMAGE_PATH">>, <<"IMAGE_VERSION">>,
     <<"SINGULARITY_IMAGE">>}

\* what the description gives for a fixed key, from the client and the
\* arguments of the finished call
FixedValue(key) ==
    LET wf == py_lower(args.workflow)
        name == py_split(client.slurm_model_images[wf], "/")[2]
    IN  CASE key = <<"DATA_PATH">> ->
                client.slurm_data_path \o <<"/">> \o args.input_data
          [] key = <<"IMAGE_PATH">> ->
                client.slurm_images_path \o <<"/">>
                \o client.slurm_model_paths[wf]
          [] key = <<"IMAGE_VERSION">> -> args.workflow_version
          [] key = <<"SINGULARITY_IMAGE">> ->
                name \o <<"_">> \o args.workflow_version \o <<".sif">>

\* the parameters whose name is K in upper case
Named(kwargs, K) == {k \in DOMAIN kwargs : py_upper(k) = K}

\* of these, the one the call gives last
LastNamed(kwargs, K) ==
    CHOOSE k \in Named(kwargs, K) :
        \A j \in Named(kwargs, K) : kwargs[j].pos <= kwargs[k].pos

\* C12 as stated: whatever the workflow parameters are, the environment has
\* DATA_PATH = data root/input, IMAGE_PATH = images root/model path,
\* IMAGE_VERSION = the version and SINGULARITY_IMAGE = image_version.sif
C12_FixedKeys ==
    GwcDone => \A key \in FixedKeys :
                  /\ key \in DOMAIN retval.env
                  /\ retval.env[key] = FixedValue(key)

\* C12, amended: the four fixed keys are always in the environment; each has
\* its fixed value unless a workflow parameter has that key as its name in
\* upper case, and then it has the text of that parameter's value
C12_FixedKeysUnlessNamed ==
    GwcDone => \A key \in FixedKeys :
                  /\ key \in DOMAIN retval.env
                  /\ retval.env[key] =
                        IF Named(args.kwargs, key) = {}
                        THEN FixedValue(key)
                        ELSE py_format(
                                args.kwargs[LastNamed(args.kwargs, key)].value)

C12_Witness ==
    /\ GwcDone
    /\ <<"data_path">> \in DOMAIN args.kwargs
    /\ retval.env[<<"DATA_PATH">>] = <<"x">>
    /\ retval.env[<<"IMAGE_VERSION">>] = args.workflow_version

\* C13 as stated: every workflow parameter (name, value) is in the
\* environment under its name in upper case with the text of its value,
\* also when two names differ in case only
C13_EveryParam ==
    GwcDone => \A k \in DOMAIN args.kwargs :
                  /\ py_upper(k) \in DOMAIN retval.env
                  /\ retval.env[py_upper(k)] = py_format(args.kwargs[k].value)

\* C13, amended: the environment has, for every workflow parameter, its name
\* in upper case as a key, and the value of the key is the text of the value
\* of the last parameter of the call with that upper-case name; the
\* environment has no key besides these and the fixed ones
C13_LastOfSameUpper ==
    GwcDone =>
        /\ \A k \in DOMAIN args.kwargs :
              /\ py_upper(k) \in DOMAIN retval.env
              /\ retval.env[py_upper(k)] =
                    py_format(args.kwargs[LastNamed(args.kwargs,
                                                    py_upper(k))].value)
        /\ DOMAIN retval.env =
              FixedKeys \cup {py_upper(k) : k \in DOMAIN args.kwargs}

C13_Witness ==
    /\ GwcDone
    /\ {<<"a">>, <<"A">>} \subseteq DOMAIN args.kwargs
    /\ args.kwargs[<<"a">>].pos = 2
    /\ retval.env[<<"A">>] = <<"1">>

\* a finished call that built a submission command, of either client
CmdDone ==
    /\ pc = "done"
    /\ ret.kind = "return"
    /\ ret.op \in {"get_workflow_command", "get_cellpose_command"}

Places(c, x) == {i \in 1..Len(c) : c[i] = x}

Symbols(s) == {s[i] : i \in 1..Len(s)}

\* the symbols of the names and of the values of the workflow parameters
ParamSymbols ==
    IF ret.op = "get_workflow_command"
    THEN UNION {Symbols(k) \cup Symbols(py_format(args.kwargs[k].value)) :
                   k \in DOMAIN args.kwargs}
    ELSE UNION {Symbols(py_format(v)) :
                   v \in {args.params.cp_model, args.params.nuc_channel,
                          args.params.prob_threshold,
                          args.params.cell_diameter}}

\* the option is once in the command, with the value after it
OptionWith(c, option, value) ==
    /\ Cardinality(Places(c, option)) = 1
    /\ \A i \in Places(c, option) :
          /\ i + Len(value) <= Len(c)
          /\ SubSeq(c, i + 1, i + Len(value)) = value

\* C14: the command has --time= exactly when a time is given and
\* --mail-user= exactly when an email is given, the time before the mail; it
\* always has --output=omero-%4j.log; it has no name and no value of a
\* workflow parameter
C14_Options ==
    CmdDone =>
        /\ retval.cmd[1] = "sbatch"
        /\ IF args.time.some
           THEN OptionWith(retval.cmd, " --time=", args.time.v)
           ELSE Places(retval.cmd, " --time=") = {}
        /\ IF args.email.some
           THEN OptionWith(retval.cmd, " --mail-user=", args.email.v)
           ELSE Places(retval.cmd, " --mail-user=") = {}
        /\ \A i \in Places(retval.cmd, " --time=") :
              \A j \in Places(retval.cmd, " --mail-user=") : i < j
        /\ Cardinality(Places(retval.cmd, " --output=omero-%4j.log ")) = 1
        /\ \A i \in Places(retval.cmd, " --output=omero-%4j.log ") :
              \A j \in Places(retval.cmd, " --time=")
                       \cup Places(retval.cmd, " --mail-user=") : j < i
        /\ Symbols(retval.cmd) \cap ParamSymbols = {}

C14_Witness ==
    /\ CmdDone
    /\ ret.op = "get_workflow_command"
    /\ args.time.some
    /\ args.email.some
    /\ args.kwargs # EmptyDict
    /\ Places(retval.cmd, " --time=") = {2}
    /\ Places(retval.cmd, " --mail-user=") = {4}

\* C15: a call of get_workflow_command runs no remote command and leaves
\* every field of the client as it was
C15_NoEffect ==
    [][(pc = "idle" /\ pc' = "done" /\ ret'.op = "get_workflow_command")
          => (client' = client /\ Runs(trace') = <<>>)]_vars

C15_Witness ==
    /\ GwcDone
    /\ trace = <<>>
    /\ DOMAIN client.slurm_model_repos = ConfiguredWorkflows
    /\ args.workflow = <<"C", "P">>


---------------------------------------------------------------------------
(* Properties of the workflow descriptors *)

GwpDone ==
    /\ pc = "done"
    /\ ret.op = "get_workflow_parameters"
    /\ ret.kind = "return"

\* the first eight characters of the id spell cytomine
CytomineId(id) ==
    /\ Len(id) >= 8
    /\ <<id[1], id[2], id[3], id[4], id[5], id[6], id[7], id[8]>>
          = <<"c", "y", "t", "o", "m", "i", "n", "e">>

\* C16: the dictionary of get_workflow_parameters has no key that starts with
\* "cytomine", and has every other input of the descriptor under its id, with
\* the fields of an input of that id
C16_NoCytomine ==
    GwpDone =>
        LET inputs == args.fetched.descriptor.inputs
        IN  /\ \A id \in DOMAIN retval : ~CytomineId(id)
            /\ \A i \in 1..Len(inputs) :
                  ~CytomineId(inputs[i].id) => inputs[i].id \in DOMAIN retval
            /\ \A id \in DOMAIN retval :
                  /\ retval[id].name = id
                  /\ \E i \in 1..Len(inputs) :
                        /\ inputs[i].id = id
                        /\ retval[id].default = inputs[i].default_value
                        /\ retval[id].cytype = inputs[i].type
                        /\ retval[id].optional = inputs[i].optional
                        /\ retval[id].description = inputs[i].description

C16_Witness ==
    /\ GwpDone
    /\ Len(args.fetched.descriptor.inputs) = 2
    /\ args.fetched.descriptor.inputs[1].id = Cytomine \o <<"_", "h">>
    /\ args.fetched.descriptor.inputs[2].id = SubSeq(Cytomine, 1, 7)
    /\ DOMAIN retval = {SubSeq(Cytomine, 1, 7)}

\* a step of init_workflows, in the constructor or called later
InitWorkflowsStep ==
    /\ pc \in {"constructing", "idle"}
    /\ ret'.op \in {"__init__", "init_workflows"}

\* the descriptor of workflow x was fetched and declares an image
FetchedImage(fetches, x) ==
    fetches[x].ok /\ fetches[x].body = "descriptor"

\* C17: without force_update init_workflows changes no cached image and adds
\* an image only for a configured workflow that has none, the one its fetched
\* descriptor declares; with force_update, after the call, the image of every
\* configured workflow is the one its descriptor fetched in the call declares;
\* no other field of the client changes
C17_CacheStable ==
    [][InitWorkflowsStep =>
          LET old == client.slurm_model_images
              new == client'.slurm_model_images
              repos == client.slurm_model_repos
              fetches == args'.fetches
          IN  /\ ~args'.force_update =>
                    /\ \A x \in DOMAIN old :
                          x \in DOMAIN new /\ new[x] = old[x]
                    /\ \A x \in DOMAIN new \ DOMAIN old :
                          /\ x \in DOMAIN repos
                          /\ FetchedImage(fetches, x)
                          /\ new[x] = fetches[x].descriptor.image
              /\ (args'.force_update /\ ret'.kind = "return") =>
                    \A x \in DOMAIN repos :
                          /\ x \in DOMAIN new
                          /\ FetchedImage(fetches, x)
                          /\ new[x] = fetches[x].descriptor.image
              /\ (ret'.op = "init_workflows" /\ ret'.kind = "return") =>
                    DOMAIN repos \subseteq DOMAIN new
              /\ [client' EXCEPT !.slurm_model_images = old] = client]_vars

C17_Witness ==
    /\ pc = "done"
    /\ ret.op = "__init__"
    /\ ret.kind = "return"
    /\ ~args.force_update
    /\ DOMAIN client.slurm_model_repos = ConfiguredWorkflows
    /\ client.slurm_model_images[cp] = ImageB
    /\ args.fetches[cp].descriptor.image = ImageA
    /\ client.slurm_model_images[w] = ImageA
    /\ args.fetches[w].descriptor.image = ImageA

CuDone == pc = "done" /\ ret.op = "convert_url"

\* C18: https://github.com/<org>/<repo> becomes the raw descriptor URL of
\* <org>/<repo> on master, and https://github.com/<org>/<repo>/tree/<branch>/...
\* the raw descriptor URL of <org>/<repo> on <branch>
C18_RawUrl ==
    CuDone =>
        LET parts == py_split(args.input_url, "/")
            github == /\ Len(parts) >= 5
                      /\ SubSeq(parts, 1, 3)
                            = <<<<"https:">>, <<>>, <<"github.com">>>>
        IN  /\ (github /\ Len(parts) = 5) =>
                  /\ ret.kind = "return"
                  /\ retval = RawUrl(parts[4], parts[5], <<"master">>)
            /\ (github /\ Len(parts) >= 7 /\ parts[6] = <<"tree">>) =>
                  /\ ret.kind = "return"
                  /\ retval = RawUrl(parts[4], parts[5], parts[7])

ConvDone == pc = "done" /\ ret.op = "convert_cytype_to_omtype"

\* C19: a Number becomes a Float when its default is a float and an Int
\* otherwise, a Boolean a Bool, a String a String
C19_Types ==
    ConvDone =>
        /\ args.cytype = "Number" =>
              retval = IF args.default.t = "float" THEN "Float" ELSE "Int"
        /\ args.cytype = "Boolean" => retval = "Bool"
        /\ args.cytype = "String" => retval = "String"

C19_Witness ==
    /\ ConvDone
    /\ args.cytype = "Number"
    /\ args.default = FloatVal(0, 0)
    /\ retval = "Float"

UnzipDone == pc = "done" /\ ret.op = "get_unzip_command"

\* s ends with e
EndsWith(s, e) ==
    Len(s) >= Len(e) /\ SubSeq(s, Len(s) - Len(e) + 1, Len(s)) = e

\* C20: a None filter gives the command of the filter '*'; a given pattern
\* restricts the extraction to it; with no filter argument the patterns are
\* *.tiff *.tif; the files are always extracted into
\* <data root>/<archive>/data/in
C20_Filter ==
    UnzipDone =>
        LET f == args.filter_filetypes
            dir == client.slurm_data_path \o <<"/">> \o args.zipfile
            patterns == IF ~f.given THEN <<"*.tiff", SP, "*.tif">>
                        ELSE IF ~f.value.some THEN <<"*">> ELSE f.value.v
        IN  /\ EndsWith(retval, dir \o <<".zip", " ">> \o patterns)
            /\ Cardinality(Places(retval, "7z e -y -o")) = 1
            /\ \A i \in Places(retval, "7z e -y -o") :
                  SubSeq(retval, i + 1, i + Len(dir) + 1)
                     = dir \o <<"/data/in">>
            /\ (f.given /\ ~f.value.some) =>
                  retval = get_unzip_command(client, args.zipfile,
                                             Some(<<"*">>))

C20_Witness ==
    /\ UnzipDone
    /\ args.filter_filetypes.given
    /\ ~args.filter_filetypes.value.some
    /\ retval[Len(retval)] = "*"


---------------------------------------------------------------------------
(* Properties of get_active_job_progress and of the failed remote command *)

ProgDone == pc = "done" /\ ret.op = "get_active_job_progress"

\* the tail command gave a Result
TailRead == trace[1].resp # "raised"

\* the places of a % that stands behind a digit: where the matches end
PercentEnds(s) == {j \in 2..Len(s) : s[j] = "%" /\ s[j - 1] \in Digits}

\* the match that ends at place j: the digits before it, as far as they go
MatchEndingAt(s, j) ==
    LET start == CHOOSE i \in 1..(j - 1) :
                    /\ \A x \in i..(j - 1) : s[x] \in Digits
                    /\ (i = 1 \/ s[i - 1] \notin Digits)
    IN  SubSeq(s, start, j)

LastMatch(s) ==
    MatchEndingAt(s, CHOOSE j \in PercentEnds(s) :
                        \A x \in PercentEnds(s) : x <= j)

\* C21: when the tail of the log has a match of the percentage pattern,
\* get_active_job_progress returns "Progress: <m>" with <m> the last match
C21_LastMatch ==
    (ProgDone /\ TailRead /\ PercentEnds(result.stdout) # {}) =>
        /\ ret.kind = "return"
        /\ retval = <<"Progress: ">> \o LastMatch(result.stdout) \o <<NL>>

C21_Witness ==
    /\ ProgDone
    /\ result.stdout = <<"5", "%", "1", "%">>
    /\ retval = <<"Progress: ", "1", "%", NL>>

\* C22: when the tail has no match, or the tail command raised,
\* get_active_job_progress returns normally and does not raise
C22_SoftFailure ==
    (ProgDone /\ (~TailRead \/ PercentEnds(result.stdout) = {})) =>
        ret.kind = "return"

\* a finished call of an operation that ran a remote command which failed
FailedCommandDone ==
    /\ pc = "done"
    /\ ret.op \in {"list_active_jobs", "list_completed_jobs", "list_all_jobs",
                   "get_active_job_progress", "zip_data_on_slurm_server",
                   "unpack_data", "run_commands_split_out"}
    /\ \E i \in 1..Len(trace) : trace[i].resp = "not_ok"

\* the operations whose return value is the Result of their command
ReturnsResult ==
    /\ ret.op \in {"zip_data_on_slurm_server", "unpack_data"}
    /\ retval = result

\* C23: no operation absorbs a failed remote command: when its command did
\* not succeed, the operation raises or its return value is the Result with
\* the success flag
C23_NotAbsorbed ==
    FailedCommandDone =>
        \/ ret.kind = "raise"
        \/ ReturnsResult /\ ~retval.ok

SplitDone == pc = "done" /\ ret.op = "run_commands_split_out"

\* C27: run_commands_split_out raises SSHException when any command of the
\* list fails, and otherwise returns one string per command, the output of
\* the command
C27_AnyFailureRaises ==
    SplitDone =>
        IF \E i \in 1..Len(args.cmds) : ~args.cmds[i].ok
        THEN ret.kind = "raise" /\ ret.exc = "SSHException"
        ELSE /\ ret.kind = "return"
             /\ Len(retval) = Len(args.cmds)
             /\ \A i \in 1..Len(args.cmds) :
                   py_strip(retval[i]) = py_strip(args.cmds[i].out)

EpDone == pc = "done" /\ ret.op = "extract_parts_from_url"

\* C29: extract_parts_from_url returns the parts and a branch or fails with
\* ValueError: with fewer than five parts or a host that is not github.com it
\* fails with ValueError, and every other input gives a branch
C29_OnlyValueError ==
    EpDone =>
        LET parts == py_split(args.input_url, "/")
        IN  IF Len(parts) < 5 \/ parts[3] # <<"github.com">>
            THEN ret.kind = "raise" /\ ret.exc = "ValueError"
            ELSE /\ ret.kind = "return"
                 /\ retval.url_parts = parts
                 /\ retval.branch # <<>>


---------------------------------------------------------------------------
(* Properties of the two scripts *)

Succeeded(e) == e.resp \in {"ok_empty", "ok_output"}

\* the remote commands of the segmentation script, told by their first word
IsUnpack(e) == e.kind = "run" /\ e.cmd[1] = "mkdir "
IsUpdate(e) == e.kind = "run" /\ e.cmd[1] = "git -C "
IsSubmit(e) == e.kind = "run" /\ e.cmd[1] = "sbatch"
IsPoll(e) == e.kind = "run" /\ e.cmd[1] = JOB_STATUS_CMD

IsStep(e, step) == e.kind = "step" /\ e.cmd = <<step>>

SegScript == args.op = "runScript" /\ args.script = "segmentation"
ResScript == args.op = "runScript" /\ args.script = "results"

\* C24: in the segmentation script a step is issued only after the step
\* before it returned success: the update after an unpack that succeeded, the
\* submission after an update that succeeded, the status query after a
\* submission that succeeded, each as the command right before it
C24_Gated ==
    SegScript =>
        \A i \in 1..Len(trace) :
            /\ IsUnpack(trace[i]) => i = 1
            /\ IsUpdate(trace[i]) =>
                  i > 1 /\ IsUnpack(trace[i - 1]) /\ Succeeded(trace[i - 1])
            /\ IsSubmit(trace[i]) =>
                  i > 1 /\ IsUpdate(trace[i - 1]) /\ Succeeded(trace[i - 1])
            /\ IsPoll(trace[i]) =>
                  i > 1 /\ IsSubmit(trace[i - 1]) /\ Succeeded(trace[i - 1])

C24_Witness ==
    /\ SegScript
    /\ pc = "ended"
    /\ Len(trace) = 3
    /\ IsUnpack(trace[1]) /\ Succeeded(trace[1])
    /\ IsUpdate(trace[2]) /\ trace[2].resp = "not_ok"
    /\ IsStep(trace[3], "closeSession")

\* C25: the segmentation script never asks for the status of job id -1
C25_NoPollOfSentinel ==
    SegScript =>
        \A i \in 1..Len(trace) :
            IsPoll(trace[i]) =>
                trace[i].cmd # <<JOB_STATUS_CMD, "-", "1">>

\* the events of trace that are the step named
StepPlaces(step) == {i \in 1..Len(trace) : IsStep(trace[i], step)}

\* C28: on every path of the segmentation script on which no remote call
\* raises, the "Message" output is set exactly once, the session is closed
\* after it, and the script ends without an error
C28_MessageSet ==
    (SegScript /\ pc = "ended"
       /\ \A i \in 1..Len(trace) : trace[i].resp # "raised") =>
        /\ Cardinality(StepPlaces("setOutput")) = 1
        /\ StepPlaces("closeSession") = {Len(trace)}
        /\ StepPlaces("setOutput") = {Len(trace) - 1}
        /\ retval.some
        /\ ret.kind = "return"

\* the steps of the other script that come after the log file
AfterLog(e) ==
    \/ e.kind = "run"
    \/ \E step \in {"extract_data_location_from_log", "copy_zip_locally",
                    "upload_zip_to_omero", "unzip_zip_locally",
                    "upload_contents_to_omero", "cleanup_tmp_files_locally",
                    "setOutput"} : IsStep(e, step)

\* C26: when fetching the log file or copying the archive raises, no step of
\* the script follows but the close of the session, which does follow, and
\* the error leaves the script
C26_TransferFatal ==
    ResScript =>
        \A i \in 1..Len(trace) :
            (/\ trace[i].resp = "raised"
             /\ \/ IsStep(trace[i], "get_logfile_from_slurm")
                \/ IsStep(trace[i], "copy_zip_locally")) =>
                /\ ret.kind = "raise"
                /\ \A j \in (i + 1)..Len(trace) :
                      ~AfterLog(trace[j]) /\ IsStep(trace[j], "closeSession")
                /\ pc \in {"res_close", "ended"}
                /\ pc = "ended" =>
                      Len(trace) = i + 1 /\ IsStep(trace[i + 1], "closeSession")

C26_Witness ==
    /\ ResScript
    /\ pc = "ended"
    /\ ret.kind = "raise"
    /\ IsStep(trace[Len(trace) - 1], "copy_zip_locally")
    /\ trace[Len(trace) - 1].resp = "raised"
    /\ IsStep(trace[Len(trace)], "closeSession")

\* the four steps on the server, in their order
LocalSteps ==
    <<"upload_zip_to_omero", "unzip_zip_locally", "upload_contents_to_omero",
      "cleanup_tmp_files_locally">>

\* the text a failed step leaves in the message
FailureText(step) ==
    CASE step = "upload_zip_to_omero" -> " Uploading zip failed: "
      [] step = "unzip_zip_locally" -> " Unzip failed: "
      [] step = "upload_contents_to_omero" ->
            " Failed to upload images to OMERO: "
      [] step = "cleanup_tmp_files_locally" -> " Failed to cleanup tmp files: "

\* C30: the remote zip comes after the log was fetched and a data location
\* was found in it, the copy after a zip that succeeded; once the copy
\* returned, the upload of the zip, the unzip, the upload of the contents and
\* the cleanup run once each in this order whatever the outcome of the ones
\* before, and a failed one leaves its error in the message
C30_OrderedAndGated ==
    ResScript =>
        \A i \in 1..Len(trace) :
            /\ trace[i].kind = "run" =>
                  /\ i > 2
                  /\ IsStep(trace[i - 2], "get_logfile_from_slurm")
                  /\ trace[i - 2].resp = "returned"
                  /\ IsStep(trace[i - 1], "extract_data_location_from_log")
                  /\ trace[i - 1].resp = "found"
            /\ IsStep(trace[i], "copy_zip_locally") =>
                  /\ i > 1
                  /\ trace[i - 1].kind = "run"
                  /\ Succeeded(trace[i - 1])
            /\ (IsStep(trace[i], "copy_zip_locally")
                /\ trace[i].resp = "returned"
                /\ pc \in {"res_output", "res_close", "ended"}) =>
                  /\ Len(trace) >= i + 4
                  /\ \A n \in 1..4 :
                        /\ IsStep(trace[i + n], LocalSteps[n])
                        /\ StepPlaces(LocalSteps[n]) = {i + n}
                        /\ trace[i + n].resp = "failed" =>
                              \E x \in 1..Len(retval.v) :
                                 retval.v[x] = FailureText(LocalSteps[n])

C30_Witness ==
    /\ ResScript
    /\ pc = "ended"
    /\ ret.kind = "return"
    /\ \E i \in 1..Len(trace) :
          /\ IsStep(trace[i], "upload_zip_to_omero")
          /\ trace[i].resp = "failed"
          /\ trace[i + 1].resp = "failed"
          /\ IsStep(trace[i + 3], "cleanup_tmp_files_locally")
          /\ trace[i + 3].resp = "ok"
          /\ IsStep(trace[i + 4], "setOutput")

====
